---- MODULE Spec2Model ----
(***************************************************************************)
(* A model of fastdb: the in-memory index of package fastdb (type DB) and  *)
(* the append-only file of package persist (type AOF).                     *)
(*                                                                         *)
(* A Go string or []byte is a sequence of one-character strings.  The      *)
(* three bytes that the log protocol treats specially are written NL       *)
(* (newline), CR (carriage return) and BS (backslash).                     *)
(***************************************************************************)
EXTENDS Integers, Sequences, FiniteSets, TLC

NL == "NL"
CR == "CR"
BS == "BS"
US == "_"

SetWord == <<"s", "e", "t">>
DelWord == <<"d", "e", "l">>

delLen == 3
setLen == 4

(***************************************************************************)
(* Bounds of the model.                                                    *)
(***************************************************************************)
MaxLog == 2      \* mutations (entries appended, records stored or removed)
MaxFaults == 1   \* I/O failures the environment injects in one behaviour
MaxCut == 1      \* bytes a failing copy has written before it fails

(***************************************************************************)
(* The Go library functions the code calls, on sequences of characters.    *)
(***************************************************************************)
DigitChars == <<"0", "1", "2", "3", "4", "5", "6", "7", "8", "9">>

IsDigit(c) == \E i \in 1..10 : DigitChars[i] = c

DigitVal(c) == CHOOSE d \in 0..9 : DigitChars[d + 1] = c

RECURSIVE Digits(_)
Digits(n) ==
  IF n < 10 THEN <<DigitChars[n + 1]>>
  ELSE Digits(n \div 10) \o <<DigitChars[(n % 10) + 1]>>

\* strconv.Itoa
Itoa(k) == IF k < 0 THEN <<"-">> \o Digits(0 - k) ELSE Digits(k)

RECURSIVE DigitsVal(_)
DigitsVal(s) ==
  IF s = <<>> THEN 0
  ELSE 10 * DigitsVal(SubSeq(s, 1, Len(s) - 1)) + DigitVal(s[Len(s)])

\* A faulty variant of Atoi: the error is dropped, the value is then 0.
AtoiNoError(s) ==
  [ok |-> TRUE,
   val |-> IF s # <<>> /\ \A i \in 1..Len(s) : IsDigit(s[i])
           THEN DigitsVal(s) ELSE 0]

\* strconv.Atoi: an optional sign, then at least one decimal digit.
\* ok = FALSE stands for the returned error.
Atoi(s) ==
  LET signed == s # <<>> /\ s[1] \in {"+", "-"}
      body == IF signed THEN Tail(s) ELSE s
  IN IF body = <<>> \/ \E i \in 1..Len(body) : ~IsDigit(body[i])
     THEN [ok |-> FALSE, val |-> 0]
     ELSE [ok |-> TRUE,
           val |-> IF signed /\ s[1] = "-" THEN 0 - DigitsVal(body)
                   ELSE DigitsVal(body)]

HasPrefix(s, p) == Len(p) <= Len(s) /\ SubSeq(s, 1, Len(p)) = p

\* strings.Contains
Contains(s, sub) ==
  \E i \in 0..(Len(s) - Len(sub)) : SubSeq(s, i + 1, i + Len(sub)) = sub

\* strings.ReplaceAll for a non-empty old: leftmost, non-overlapping matches.
RECURSIVE ReplaceAll(_, _, _)
ReplaceAll(s, old, new) ==
  IF s = <<>> THEN <<>>
  ELSE IF HasPrefix(s, old)
       THEN new \o ReplaceAll(SubSeq(s, Len(old) + 1, Len(s)), old, new)
       ELSE <<Head(s)>> \o ReplaceAll(Tail(s), old, new)

\* strings.Split on a one-character separator.
RECURSIVE Split(_, _)
Split(s, c) ==
  IF \A i \in 1..Len(s) : s[i] # c THEN <<s>>
  ELSE LET i == CHOOSE j \in 1..Len(s) :
                  s[j] = c /\ \A h \in 1..(j - 1) : s[h] # c
       IN <<SubSeq(s, 1, i - 1)>> \o Split(SubSeq(s, i + 1, Len(s)), c)

\* strings.LastIndex for a one-character separator, 1-based; 0 where Go
\* returns -1.
LastIndex(s, c) ==
  IF \A i \in 1..Len(s) : s[i] # c THEN 0
  ELSE CHOOSE j \in 1..Len(s) :
         s[j] = c /\ \A h \in (j + 1)..Len(s) : s[h] # c

\* bufio.ScanLines drops one trailing carriage return of a line.
DropCR(l) ==
  IF l # <<>> /\ l[Len(l)] = CR THEN SubSeq(l, 1, Len(l) - 1) ELSE l

\* The tokens a bufio.Scanner yields for the bytes of a file: the lines
\* without their terminator, and a last unterminated line when not empty.
ScanLines(data) ==
  LET parts == Split(data, NL)
      n == Len(parts)
      count == IF parts[n] = <<>> THEN n - 1 ELSE n
  IN [i \in 1..count |-> DropCR(parts[i])]

\* scanner.Text() of token i: the empty string once Scan() has returned
\* false at the end of the input.
Text(toks, i) == IF i <= Len(toks) THEN toks[i] ELSE <<>>

(***************************************************************************)
(* Go maps.                                                                *)
(***************************************************************************)
EmptyMap == [x \in {} |-> {}]

MapPut(m, k, v) == [x \in (DOMAIN m) \cup {k} |-> IF x = k THEN v ELSE m[x]]

MapDel(m, k) == [x \in (DOMAIN m) \ {k} |-> m[x]]

(***************************************************************************)
(* package persist: validation and replay.                                 *)
(***************************************************************************)

\* A faulty variant of validateData: a set entry of more than setLen parts
\* is accepted.
validateDataLoose(lines) ==
  LET lineParts == Split(lines, NL)
      formatOK ==
        CASE lineParts[1] = DelWord ->
               Len(lineParts) = delLen /\ lineParts[3] = <<>>
          [] lineParts[1] = SetWord ->
               Len(lineParts) >= setLen /\ lineParts[Len(lineParts)] = <<>>
          [] OTHER -> FALSE
  IN formatOK
     /\ LET keyParts == Split(lineParts[2], US)
        IN Len(keyParts) >= 2 /\ Atoi(keyParts[Len(keyParts)]).ok

\* A faulty variant of validateData: the key line is not examined.
validateDataAnyKey(lines) ==
  LET lineParts == Split(lines, NL)
  IN CASE lineParts[1] = DelWord ->
            Len(lineParts) = delLen /\ lineParts[3] = <<>>
       [] lineParts[1] = SetWord ->
            Len(lineParts) = setLen /\ lineParts[4] = <<>>
       [] OTHER -> FALSE

\* validateData: TRUE where the code returns nil.
validateData(lines) ==
  LET lineParts == Split(lines, NL)
      formatOK ==
        CASE lineParts[1] = DelWord ->
               Len(lineParts) = delLen /\ lineParts[3] = <<>>
          [] lineParts[1] = SetWord ->
               Len(lineParts) = setLen /\ lineParts[4] = <<>>
          [] OTHER -> FALSE
  IN formatOK
     /\ LET keyParts == Split(lineParts[2], US)
        IN Len(keyParts) >= 2 /\ Atoi(keyParts[Len(keyParts)]).ok

\* scanAndValidateFile, from token i + 1 on: TRUE where no corruption is
\* reported.  The results of the inner scanner.Scan() calls are not tested
\* by the code, so a missing line reads as the empty string.
RECURSIVE scanAndValidateFile(_, _)
scanAndValidateFile(toks, i) ==
  IF i >= Len(toks) THEN TRUE
  ELSE LET line == toks[i + 1]
       IN IF line = SetWord
          THEN validateData(line \o <<NL>> \o Text(toks, i + 2) \o <<NL>>
                                 \o Text(toks, i + 3) \o <<NL>>)
               /\ scanAndValidateFile(toks, i + 3)
          ELSE IF line = DelWord
          THEN validateData(line \o <<NL>> \o Text(toks, i + 2) \o <<NL>>)
               /\ scanAndValidateFile(toks, i + 2)
          ELSE FALSE

\* parseBucketAndKey: split at the last underscore.
parseBucketAndKey(key) ==
  LET uPos == LastIndex(key, US)
  IN IF uPos = 0 THEN [ok |-> FALSE, bucket |-> <<>>, keyID |-> 0]
     ELSE LET num == Atoi(SubSeq(key, uPos + 1, Len(key)))
          IN IF ~num.ok THEN [ok |-> FALSE, bucket |-> <<>>, keyID |-> 0]
             ELSE [ok |-> TRUE, bucket |-> SubSeq(key, 1, uPos - 1),
                   keyID |-> num.val]

Unescape(value) == ReplaceAll(value, <<BS, "n">>, <<NL>>)

\* setBucketAndKey
setBucketAndKey(key, value, keys) ==
  LET p == parseBucketAndKey(key)
  IN IF ~p.ok THEN [ok |-> FALSE, keys |-> keys]
     ELSE LET bmap == IF p.bucket \in DOMAIN keys THEN keys[p.bucket]
                      ELSE EmptyMap
          IN [ok |-> TRUE,
              keys |-> MapPut(keys, p.bucket,
                              MapPut(bmap, p.keyID, Unescape(value)))]

\* The key of a del entry that handleDelInstruction takes for corruption.
DelKeyRejected(key) ==
  \/ Contains(key, <<"{">>)
  \/ Contains(key, <<"}">>)
  \/ Contains(key, <<"\"", ":", "\"">>)
  \/ Contains(key, SetWord)
  \/ Contains(key, DelWord)
  \/ Contains(key, <<"\"">>)

\* A faulty variant of handleDelInstruction: the record is left in place.
handleDelIgnored(key, keys) == [ok |-> TRUE, keys |-> keys]

\* handleDelInstruction
handleDelInstruction(key, keys) ==
  IF DelKeyRejected(key) THEN [ok |-> FALSE, keys |-> keys]
  ELSE LET p == parseBucketAndKey(key)
       IN IF ~p.ok THEN [ok |-> FALSE, keys |-> keys]
          ELSE IF p.bucket \in DOMAIN keys
               THEN LET bmap == MapDel(keys[p.bucket], p.keyID)
                    IN [ok |-> TRUE,
                        keys |-> IF DOMAIN bmap = {}
                                 THEN MapDel(keys, p.bucket)
                                 ELSE MapPut(keys, p.bucket, bmap)]
               ELSE [ok |-> TRUE, keys |-> keys]

\* fileReader with processInstruction and handleSetInstruction, from token
\* i + 1 on.  ok = FALSE stands for the returned error.
RECURSIVE fileReader(_, _, _)
fileReader(toks, i, keys) ==
  IF i >= Len(toks) THEN [ok |-> TRUE, keys |-> keys]
  ELSE LET instruction == toks[i + 1]
       IN IF i + 2 > Len(toks) THEN [ok |-> FALSE, keys |-> EmptyMap]
          ELSE IF instruction = SetWord
          THEN IF i + 3 > Len(toks) THEN [ok |-> FALSE, keys |-> EmptyMap]
               ELSE LET r == setBucketAndKey(toks[i + 2], toks[i + 3], keys)
                    IN IF ~r.ok THEN [ok |-> FALSE, keys |-> EmptyMap]
                       ELSE fileReader(toks, i + 3, r.keys)
          ELSE IF instruction = DelWord
          THEN LET r == handleDelInstruction(toks[i + 2], keys)
               IN IF ~r.ok THEN [ok |-> FALSE, keys |-> EmptyMap]
                  ELSE fileReader(toks, i + 2, r.keys)
          ELSE [ok |-> FALSE, keys |-> EmptyMap]

\* What OpenPersister makes of the bytes of the log: checkFileForCorruption,
\* then getData.  ok = FALSE stands for the returned error.
Replay(data) ==
  LET toks == ScanLines(data)
  IN IF ~scanAndValidateFile(toks, 0) THEN [ok |-> FALSE, keys |-> EmptyMap]
     ELSE fileReader(toks, 0, EmptyMap)

(***************************************************************************)
(* package fastdb: input validation and formatting.                        *)
(***************************************************************************)

\* A faulty variant of validateSetInput: the sign of the key is not tested.
validateBucketOnly(bucket, key) == bucket # <<>>

\* validateSetInput: TRUE where the code returns nil.
validateSetInput(bucket, key) == bucket # <<>> /\ key >= 0

Escape(value) == ReplaceAll(value, <<NL>>, <<BS, "n">>)

\* formatCommand
formatCommand(command, bucket, key, value) ==
  command \o <<NL>> \o bucket \o <<US>> \o Itoa(key) \o <<NL>>
    \o (IF value # <<>> THEN Escape(value) \o <<NL>> ELSE <<>>)

\* The entry AOF.writeFile emits for one record: the value is written as
\* it is.
writeFileLines(bucket, key, value) ==
  SetWord \o <<NL>> \o bucket \o <<US>> \o Itoa(key) \o <<NL>>
    \o value \o <<NL>>

(***************************************************************************)
(* The inputs of the operations.                                           *)
(***************************************************************************)
\* (bucket, key) pairs that Set accepts, and pairs that it rejects.
Slots == {<<<<"b">>, 1>>, <<<<"b">>, 2>>, <<SetWord, 1>>}

BadSlots == {<<<<>>, 1>>, <<<<"b">>, -1>>}

Values == {<<>>, <<"a">>, <<NL>>, <<BS, "n">>, <<BS, "n", NL>>}

\* The calls of Set: every pair with one plain value, one pair with every
\* value.
SetInputs ==
  {<<s[1], s[2], <<"a">>>> : s \in Slots \cup BadSlots}
    \cup {<<<<"b">>, 1, v>> : v \in Values}

SyncTimes == {0}

(***************************************************************************)
(* The state.                                                              *)
(*   db        the DB object the caller holds: "none" before the first     *)
(*             Open, "live", "failed" (the object a failed Open returns:   *)
(*             aof and keys both nil), "crashed" (the process has stopped) *)
(*   aof       DB.aof and AOF.file: "nil" (no persister), "open" or        *)
(*             "closed" (persister whose file handle is open or closed)    *)
(*   syncTime  AOF.syncTime                                                *)
(*   keys      DB.keys, bucket -> key -> value                             *)
(*   file, bak the log file and its .bak sibling on disk                   *)
(*   dpc, todo the position of a running Defrag and the records that       *)
(*             writeFile has still to emit                                 *)
(*   ret       the last call and what it returned                          *)
(*   faults, appended, preClose, preDefrag  history: the I/O failures      *)
(*             injected and the mutations made so far, the index just      *)
(*             before the last Close, the log and the index at the start   *)
(*             of the Defrag that is running or was the last call          *)
(*   mu        DB.mu: the callers that hold it for writing and for reading *)
(*   procs     the concurrent callers: where each one is in its program    *)
(*             and what its calls have returned                            *)
(*   muts      history: the entries of the index updates, in their order   *)
(*   durable   the bytes of the log that are on stable storage             *)
(*   flusher   the goroutine AOF.flush: "none", "running" or "stopped"     *)
(*   acked     history: the length of the log when the last successful Set *)
(*             or Del returned                                             *)
(***************************************************************************)
VARIABLES db, aof, syncTime, keys, file, bak, dpc, todo, ret,
          faults, appended, preClose, preDefrag, mu, procs, muts,
          durable, flusher, acked, amu, writers, defragged, objs, ref,
          flushers, fd, call

vars == <<db, aof, syncTime, keys, file, bak, dpc, todo, ret,
          faults, appended, preClose, preDefrag, mu, procs, muts,
          durable, flusher, acked, amu, writers, defragged, objs, ref,
          flushers, fd, call>>

\* The variables of the concurrent callers, and those only the single
\* caller uses.
cvars == <<mu, procs, muts>>

\* The variables of the durability of the log.
dvars == <<durable, flusher, acked>>

\* The variables of the callers of the persister: the holders of AOF.mu and
\* the position of each goroutine that calls Write.
wvars == <<amu, writers>>

\* History: a Defrag of the store has returned nil since it was opened.
hvars == <<defragged>>

\* The map objects of the buckets, for the callers that hold one: objs is
\* the sequence of the bucket maps made so far, ref the entry of DB.keys
\* for each bucket, the position of its map in objs.
rvars == <<objs, ref>>

\* The goroutines that run AOF.flush, each with its position and with the
\* number of the file it was started for; AOF.file, as the number of the
\* file and whether it is open; and the position of the caller of the
\* persister in Close and in Defrag.
fvars == <<flushers, fd, call>>

svars == <<db, aof, syncTime, bak, dpc, todo, ret, appended, preClose,
           preDefrag>>

NoFile == [exists |-> FALSE, data |-> <<>>]

FileOf(data) == [exists |-> TRUE, data |-> data]

NoIndex == [set |-> FALSE, keys |-> EmptyMap]

NoDefrag == [log |-> NoFile, keys |-> EmptyMap]

Ret(op, bucket, key, value, err, found, wrote) ==
  [op |-> op, b |-> bucket, k |-> key, v |-> value, err |-> err,
   found |-> found, wrote |-> wrote]

Callable == db \in {"live", "failed"} /\ dpc = "idle"

Init ==
  /\ db = "none"
  /\ aof = "nil"
  /\ syncTime = 0
  /\ keys = EmptyMap
  /\ file = NoFile
  /\ bak = NoFile
  /\ dpc = "idle"
  /\ todo = <<>>
  /\ ret = Ret("none", <<>>, 0, <<>>, FALSE, FALSE, "none")
  /\ faults = 0
  /\ appended = 0
  /\ preClose = NoIndex
  /\ preDefrag = NoDefrag
  /\ mu = [w |-> {}, r |-> {}]
  /\ amu = {}
  /\ writers = <<>>
  /\ defragged = FALSE
  /\ flushers = <<>>
  /\ fd = [gen |-> 0, open |-> FALSE]
  /\ call = [pc |-> "idle", due |-> {}, done |-> {}]
  /\ objs = <<>>
  /\ ref = EmptyMap
  /\ procs = <<>>
  /\ muts = <<>>
  /\ durable = <<>>
  /\ flusher = "none"
  /\ acked = 0

\* A faulty variant of AOFWrite: the entry is appended whether the file is
\* open or closed.
AOFWriteAnyFile(lines) ==
  IF ~validateData(lines)
  THEN {[wrote |-> "err", file |-> file, fault |-> 0]}
  ELSE {[wrote |-> "ok", file |-> FileOf(file.data \o lines), fault |-> 0]}

(***************************************************************************)
(* AOF.Write: the possible results of one call.  wrote = "ok" is a nil     *)
(* error.  After validation the append fails on a closed file; on an open  *)
(* file it succeeds, or the environment makes WriteString fail, or (with   *)
(* syncTime 0) makes the Sync after the append fail.                       *)
(***************************************************************************)
AOFWrite(lines) ==
  IF ~validateData(lines) \/ aof # "open"
  THEN {[wrote |-> "err", file |-> file, fault |-> 0]}
  ELSE {[wrote |-> "ok", file |-> FileOf(file.data \o lines), fault |-> 0]}
       \cup (IF faults < MaxFaults
             THEN {[wrote |-> "err", file |-> file, fault |-> 1]}
                  \cup (IF syncTime = 0
                        THEN {[wrote |-> "err",
                               file |-> FileOf(file.data \o lines),
                               fault |-> 1]}
                        ELSE {})
             ELSE {})

\* A faulty variant of IndexAfterWrite: the error of Write is not tested
\* before the index is updated.
IndexBeforeWrite(wrote, old, new) == new

\* Set and Del return before they touch the index when Write has failed.
IndexAfterWrite(wrote, old, new) == IF wrote = "ok" THEN new ELSE old

\* The index after DB.Set has stored the record.
SetIndex(idx, bucket, key, value) ==
  MapPut(idx, bucket,
         MapPut(IF bucket \in DOMAIN idx THEN idx[bucket] ELSE EmptyMap,
                key, value))

\* Faulty variants of DelIndex: the record is left in the index; the whole
\* bucket is removed.
DelKeepsRecord(idx, bucket, key) == idx

DelWholeBucket(idx, bucket, key) == MapDel(idx, bucket)

\* A faulty variant of DelIndex: the bucket stays when its last record goes.
DelLeavesBucket(idx, bucket, key) ==
  MapPut(idx, bucket, MapDel(idx[bucket], key))

\* The index after DB.Del has removed the record.
DelIndex(idx, bucket, key) ==
  LET bmap == MapDel(idx[bucket], key)
  IN IF DOMAIN bmap = {} THEN MapDel(idx, bucket)
     ELSE MapPut(idx, bucket, bmap)

Found(idx, bucket, key) == bucket \in DOMAIN idx /\ key \in DOMAIN idx[bucket]

(***************************************************************************)
(* fastdb.Open                                                             *)
(***************************************************************************)
OpenMemory ==
  /\ db = "none"
  /\ db' = "live"
  /\ aof' = "nil"
  /\ keys' = EmptyMap
  /\ ret' = Ret("open", <<>>, 0, <<>>, FALSE, FALSE, "none")
  /\ preClose' = NoIndex
  /\ preDefrag' = NoDefrag
  /\ UNCHANGED <<syncTime, file, bak, dpc, todo, faults, appended>>
  /\ UNCHANGED cvars
  /\ UNCHANGED wvars
  /\ defragged' = FALSE
  /\ UNCHANGED fvars
  /\ UNCHANGED rvars
  /\ UNCHANGED dvars

OpenFile ==
  /\ \/ db = "none"
     \/ db = "crashed"
     \/ db = "failed"
     \/ db = "live" /\ aof = "closed" /\ dpc = "idle"
  /\ \E st \in SyncTimes :
       LET data == IF file.exists THEN file.data ELSE <<>>
           r == Replay(data)
       IN /\ syncTime' = st
          /\ file' = FileOf(data)
          /\ db' = IF r.ok THEN "live" ELSE "failed"
          /\ aof' = IF r.ok THEN "open" ELSE "nil"
          /\ keys' = r.keys
          /\ ret' = Ret("open", <<>>, 0, <<>>, ~r.ok, FALSE, "none")
  /\ dpc' = "idle"
  /\ todo' = <<>>
  /\ preClose' = NoIndex
  /\ preDefrag' = NoDefrag
  /\ UNCHANGED <<bak, faults, appended>>
  /\ UNCHANGED cvars
  /\ UNCHANGED wvars
  /\ defragged' = FALSE
  /\ UNCHANGED fvars
  /\ UNCHANGED rvars
  /\ UNCHANGED dvars

(***************************************************************************)
(* DB.Set                                                                  *)
(***************************************************************************)
DBSet(bucket, key, value) ==
  /\ Callable
  /\ IF ~validateSetInput(bucket, key)
     THEN /\ ret' = Ret("set", bucket, key, value, TRUE, FALSE, "none")
          /\ UNCHANGED <<db, keys, file, faults, appended>>
     ELSE IF aof # "nil"
     THEN \E w \in AOFWrite(formatCommand(SetWord, bucket, key, value)) :
            /\ file.data # w.file.data => appended < MaxLog
            /\ file' = w.file
            /\ faults' = faults + w.fault
            /\ appended' = IF file.data # w.file.data THEN appended + 1
                           ELSE appended
            /\ keys' = IndexAfterWrite(w.wrote, keys,
                                       SetIndex(keys, bucket, key, value))
            /\ ret' = Ret("set", bucket, key, value, w.wrote # "ok", FALSE,
                          w.wrote)
            /\ UNCHANGED db
     ELSE IF db = "failed"
     THEN \* assignment to an entry of the nil map: the process panics
          /\ db' = "crashed"
          /\ ret' = Ret("set", bucket, key, value, TRUE, FALSE, "none")
          /\ UNCHANGED <<keys, file, faults, appended>>
     ELSE /\ appended < MaxLog
          /\ appended' = appended + 1
          /\ keys' = SetIndex(keys, bucket, key, value)
          /\ ret' = Ret("set", bucket, key, value, FALSE, FALSE, "none")
          /\ UNCHANGED <<db, file, faults>>
  /\ UNCHANGED <<aof, syncTime, bak, dpc, todo, preClose>>
  /\ preDefrag' = NoDefrag
  /\ UNCHANGED cvars
  /\ UNCHANGED wvars
  /\ UNCHANGED hvars
  /\ UNCHANGED fvars
  /\ UNCHANGED rvars
  /\ UNCHANGED dvars

(***************************************************************************)
(* DB.Get                                                                  *)
(***************************************************************************)
DBGet(bucket, key) ==
  /\ Callable
  /\ ret' = IF Found(keys, bucket, key)
            THEN Ret("get", bucket, key, keys[bucket][key], FALSE, TRUE,
                     "none")
            ELSE Ret("get", bucket, key, <<>>, FALSE, FALSE, "none")
  /\ UNCHANGED <<db, aof, syncTime, keys, file, bak, dpc, todo, faults,
                 appended, preClose>>
  /\ preDefrag' = NoDefrag
  /\ UNCHANGED cvars
  /\ UNCHANGED wvars
  /\ UNCHANGED hvars
  /\ UNCHANGED fvars
  /\ UNCHANGED rvars
  /\ UNCHANGED dvars

(***************************************************************************)
(* DB.Del                                                                  *)
(***************************************************************************)
DBDel(bucket, key) ==
  /\ Callable
  /\ IF ~Found(keys, bucket, key)
     THEN /\ ret' = Ret("del", bucket, key, <<>>, FALSE, FALSE, "none")
          /\ UNCHANGED <<keys, file, faults, appended>>
     ELSE IF aof # "nil"
     THEN \E w \in AOFWrite(formatCommand(DelWord, bucket, key, <<>>)) :
            /\ file.data # w.file.data => appended < MaxLog
            /\ file' = w.file
            /\ faults' = faults + w.fault
            /\ appended' = IF file.data # w.file.data THEN appended + 1
                           ELSE appended
            /\ keys' = IndexAfterWrite(w.wrote, keys,
                                       DelIndex(keys, bucket, key))
            /\ ret' = Ret("del", bucket, key, <<>>, w.wrote # "ok",
                          w.wrote = "ok", w.wrote)
     ELSE /\ appended < MaxLog
          /\ appended' = appended + 1
          /\ keys' = DelIndex(keys, bucket, key)
          /\ ret' = Ret("del", bucket, key, <<>>, FALSE, TRUE, "none")
          /\ UNCHANGED <<file, faults>>
  /\ UNCHANGED <<db, aof, syncTime, bak, dpc, todo, preClose>>
  /\ preDefrag' = NoDefrag
  /\ UNCHANGED cvars
  /\ UNCHANGED wvars
  /\ UNCHANGED hvars
  /\ UNCHANGED fvars
  /\ UNCHANGED rvars
  /\ UNCHANGED dvars

(***************************************************************************)
(* DB.Close with AOF.Close                                                 *)
(***************************************************************************)
DBClose ==
  /\ Callable
  /\ IF aof = "closed"
     THEN \* Sync on the closed file fails: the index is not cleared
          /\ ret' = Ret("close", <<>>, 0, <<>>, TRUE, FALSE, "none")
          /\ UNCHANGED <<db, aof, keys, preClose>>
     ELSE /\ ret' = Ret("close", <<>>, 0, <<>>, FALSE, FALSE, "none")
          /\ db' = "live"
          /\ aof' = IF aof = "open" THEN "closed" ELSE aof
          /\ keys' = EmptyMap
          /\ preClose' = IF aof = "open" THEN [set |-> TRUE, keys |-> keys]
                         ELSE preClose
  /\ UNCHANGED <<syncTime, file, bak, dpc, todo, faults, appended>>
  /\ preDefrag' = NoDefrag
  /\ UNCHANGED cvars
  /\ UNCHANGED wvars
  /\ UNCHANGED hvars
  /\ UNCHANGED fvars
  /\ UNCHANGED rvars
  /\ UNCHANGED dvars

(***************************************************************************)
(* DB.Defrag with AOF.Defrag, one step per file operation.  The store lock *)
(* is held throughout, so no other call runs until dpc is "idle" again.    *)
(***************************************************************************)
DefragRet(err) == Ret("defrag", <<>>, 0, <<>>, err, FALSE, "none")

Records(idx) == UNION {{<<b, k>> : k \in DOMAIN idx[b]} : b \in DOMAIN idx}

\* The orders in which the two nested range loops of writeFile can visit
\* the records: any order of the buckets, any order within a bucket.
WriteOrders(idx) ==
  LET recs == Records(idx)
      n == Cardinality(recs)
  IN {s \in [1..n -> recs] :
        /\ \A i, j \in 1..n : i # j => s[i] # s[j]
        /\ \A i, j \in 1..n :
             (i < j /\ s[i][1] = s[j][1]) =>
               \A h \in i..j : s[h][1] = s[i][1]}

\* DB.Defrag on a store without persister calls a method of the nil *AOF,
\* which dereferences it: the process panics.
DefragNil ==
  /\ Callable
  /\ aof = "nil"
  /\ db' = "crashed"
  /\ ret' = DefragRet(TRUE)
  /\ preDefrag' = [log |-> file, keys |-> keys]
  /\ UNCHANGED <<aof, syncTime, keys, file, bak, dpc, todo, faults, appended,
                 preClose>>
  /\ UNCHANGED cvars
  /\ UNCHANGED wvars
  /\ UNCHANGED hvars
  /\ UNCHANGED fvars
  /\ UNCHANGED rvars
  /\ UNCHANGED dvars

\* AOF.Close, the first step of AOF.Defrag.
DefragClose ==
  /\ Callable
  /\ aof # "nil"
  /\ preDefrag' = [log |-> file, keys |-> keys]
  /\ IF aof = "closed"
     THEN /\ ret' = DefragRet(TRUE)
          /\ UNCHANGED <<aof, dpc>>
     ELSE /\ aof' = "closed"
          /\ dpc' = "backup"
          /\ ret' = DefragRet(FALSE)
  /\ UNCHANGED <<db, syncTime, keys, file, bak, todo, faults, appended,
                 preClose>>
  /\ UNCHANGED cvars
  /\ UNCHANGED wvars
  /\ UNCHANGED hvars
  /\ UNCHANGED fvars
  /\ UNCHANGED rvars
  /\ UNCHANGED dvars

\* makeBackup: os.Open of the log and os.Create of the backup.  Only the
\* error of os.Open is returned; the deferred source.Close() overwrites the
\* error of os.Create with its own result, so makeBackup then returns nil.
BackupCreate ==
  /\ db = "live" /\ dpc = "backup"
  /\ IF ~file.exists
     THEN /\ dpc' = "idle"
          /\ ret' = DefragRet(TRUE)
          /\ UNCHANGED <<bak, faults>>
     ELSE \/ /\ bak' = FileOf(<<>>)
             /\ dpc' = "copy"
             /\ UNCHANGED <<ret, faults>>
          \/ /\ faults < MaxFaults
             /\ faults' = faults + 1
             /\ dpc' = "remove"
             /\ UNCHANGED <<ret, bak>>
  /\ UNCHANGED <<db, aof, syncTime, keys, file, todo, appended, preClose,
                 preDefrag>>
  /\ UNCHANGED cvars
  /\ UNCHANGED wvars
  /\ UNCHANGED hvars
  /\ UNCHANGED fvars
  /\ UNCHANGED rvars
  /\ UNCHANGED dvars

\* makeBackup: io.Copy.  When the copy fails part-way the backup holds a
\* strict prefix of the log, and the deferred Close calls overwrite the
\* error: makeBackup returns nil.
BackupCopy ==
  /\ db = "live" /\ dpc = "copy"
  /\ \/ /\ bak' = FileOf(file.data)
        /\ UNCHANGED faults
     \/ /\ faults < MaxFaults
        /\ faults' = faults + 1
        /\ \E n \in 0..MaxCut :
             /\ n < Len(file.data)
             /\ bak' = FileOf(SubSeq(file.data, 1, n))
  /\ dpc' = "remove"
  /\ UNCHANGED <<db, aof, syncTime, keys, file, todo, ret, appended,
                 preClose, preDefrag>>
  /\ UNCHANGED cvars
  /\ UNCHANGED wvars
  /\ UNCHANGED hvars
  /\ UNCHANGED fvars
  /\ UNCHANGED rvars
  /\ UNCHANGED dvars

\* writeFile: os.Remove of the log.
WriteFileRemove ==
  /\ db = "live" /\ dpc = "remove"
  /\ \/ /\ file' = NoFile
        /\ dpc' = "reopen"
        /\ UNCHANGED <<ret, faults>>
     \/ /\ faults < MaxFaults
        /\ faults' = faults + 1
        /\ dpc' = "idle"
        /\ ret' = DefragRet(TRUE)
        /\ UNCHANGED file
  /\ UNCHANGED <<db, aof, syncTime, keys, bak, todo, appended, preClose,
                 preDefrag>>
  /\ UNCHANGED cvars
  /\ UNCHANGED wvars
  /\ UNCHANGED hvars
  /\ UNCHANGED fvars
  /\ UNCHANGED rvars
  /\ UNCHANGED dvars

\* writeFile: getData creates the file anew and opens it.
WriteFileReopen ==
  /\ db = "live" /\ dpc = "reopen"
  /\ file' = FileOf(<<>>)
  /\ aof' = "open"
  /\ dpc' = "write"
  /\ todo' \in WriteOrders(keys)
  /\ UNCHANGED <<db, syncTime, keys, bak, ret, faults, appended, preClose,
                 preDefrag>>
  /\ UNCHANGED cvars
  /\ UNCHANGED wvars
  /\ UNCHANGED hvars
  /\ UNCHANGED fvars
  /\ UNCHANGED rvars
  /\ UNCHANGED dvars

\* writeFile: one iteration of the loops, AOF.Write of one record.
WriteFileEntry ==
  /\ db = "live" /\ dpc = "write" /\ todo # <<>>
  /\ LET bucket == todo[1][1]
         key == todo[1][2]
     IN \E w \in AOFWrite(writeFileLines(bucket, key, keys[bucket][key])) :
          /\ file' = w.file
          /\ faults' = faults + w.fault
          /\ IF w.wrote = "ok"
             THEN /\ todo' = Tail(todo)
                  /\ UNCHANGED <<dpc, ret>>
             ELSE /\ todo' = <<>>
                  /\ dpc' = "idle"
                  /\ ret' = DefragRet(TRUE)
  /\ UNCHANGED <<db, aof, syncTime, keys, bak, appended, preClose, preDefrag>>
  /\ UNCHANGED cvars
  /\ UNCHANGED wvars
  /\ UNCHANGED hvars
  /\ UNCHANGED fvars
  /\ UNCHANGED rvars
  /\ UNCHANGED dvars

\* writeFile and Defrag return nil.
DefragDone ==
  /\ db = "live" /\ dpc = "write" /\ todo = <<>>
  /\ dpc' = "idle"
  /\ ret' = DefragRet(FALSE)
  /\ UNCHANGED <<db, aof, syncTime, keys, file, bak, todo, faults, appended,
                 preClose, preDefrag>>
  /\ UNCHANGED cvars
  /\ UNCHANGED wvars
  /\ defragged' = TRUE
  /\ UNCHANGED fvars
  /\ UNCHANGED rvars
  /\ UNCHANGED dvars

\* The process stops in the middle of a Defrag: the files stay as they are.
Crash ==
  /\ db = "live" /\ dpc # "idle"
  /\ db' = "crashed"
  /\ aof' = "nil"
  /\ keys' = EmptyMap
  /\ todo' = <<>>
  /\ UNCHANGED <<syncTime, file, bak, dpc, ret, faults, appended, preClose,
                 preDefrag>>
  /\ UNCHANGED cvars
  /\ UNCHANGED wvars
  /\ UNCHANGED hvars
  /\ UNCHANGED fvars
  /\ UNCHANGED rvars
  /\ UNCHANGED dvars

Set == \E i \in SetInputs : DBSet(i[1], i[2], i[3])

Get == \E s \in Slots : DBGet(s[1], s[2])

Del == \E s \in Slots : DBDel(s[1], s[2])

Next ==
  \/ OpenMemory
  \/ OpenFile
  \/ Set
  \/ Get
  \/ Del
  \/ DBClose
  \/ DefragNil
  \/ DefragClose
  \/ BackupCreate
  \/ BackupCopy
  \/ WriteFileRemove
  \/ WriteFileReopen
  \/ WriteFileEntry
  \/ DefragDone
  \/ Crash

Spec == Init /\ [][Next]_vars

(***************************************************************************)
(* Concurrent callers on one file-backed store, as in                      *)
(* TestConcurrentOperations: caller id runs, for j = 0 .. NumOps - 1, on   *)
(* its own key id * NumOps + j: Set, Get and, for even j, Del and Get.     *)
(* A call is a sequence of steps: taking DB.mu, the Write to the log, the  *)
(* update of the index together with the deferred release of DB.mu.        *)
(***************************************************************************)
NumProcs == 2    \* concurrent callers
NumOps == 2      \* rounds of each caller

Procs == 0..(NumProcs - 1)

TestBucket == <<"t", "e", "s", "t">>

KeyOf(p, j) == p * NumOps + j

ValueOf(p, j) ==
  <<"v", "a", "l", "u", "e", US>> \o Itoa(p) \o <<US>> \o Itoa(j)

\* The flush interval of the store: 0 (Write syncs each entry) or the 100
\* milliseconds of the test.
ConcSyncTimes == {0, 100}

InitConc ==
  /\ db = "live"
  /\ aof = "open"
  /\ syncTime \in ConcSyncTimes
  /\ keys = EmptyMap
  /\ file = FileOf(<<>>)
  /\ bak = NoFile
  /\ dpc = "idle"
  /\ todo = <<>>
  /\ ret = Ret("open", <<>>, 0, <<>>, FALSE, FALSE, "none")
  /\ faults = 0
  /\ appended = 0
  /\ preClose = NoIndex
  /\ preDefrag = NoDefrag
  /\ mu = [w |-> {}, r |-> {}]
  /\ amu = {}
  /\ writers = <<>>
  /\ defragged = FALSE
  /\ flushers = <<>>
  /\ fd = [gen |-> 0, open |-> FALSE]
  /\ call = [pc |-> "idle", due |-> {}, done |-> {}]
  /\ objs = <<>>
  /\ ref = EmptyMap
  /\ procs = [p \in Procs |->
                [pc |-> "set", j |-> 0, found |-> FALSE, v |-> <<>>,
                 okSet |-> {}, okDel |-> {}]]
  /\ muts = <<>>
  /\ durable = <<>>
  /\ flusher = "none"
  /\ acked = 0

\* sync.RWMutex: Lock waits until nobody holds the mutex, RLock until no
\* writer holds it.
CanLock(m) == m.w = {} /\ m.r = {}

CanRLock(m) == m.w = {}

Locked(p) == [w |-> mu.w \cup {p}, r |-> mu.r]

Unlocked(p) == [w |-> mu.w \ {p}, r |-> mu.r]

At(p, label) == procs[p].pc = label

Goto(p, label) == [procs EXCEPT ![p].pc = label]

\* DB.Set: defer fdb.lockUnlock()()
CSetLock(p) ==
  /\ At(p, "set")
  /\ CanLock(mu)
  /\ mu' = Locked(p)
  /\ procs' = Goto(p, "set_write")
  /\ UNCHANGED <<keys, file, faults, muts>>
  /\ UNCHANGED svars
  /\ UNCHANGED wvars
  /\ UNCHANGED hvars
  /\ UNCHANGED fvars
  /\ UNCHANGED rvars
  /\ UNCHANGED dvars

\* DB.Set: validateSetInput and fdb.aof.Write; an error returns at once.
CSetWrite(p) ==
  /\ At(p, "set_write")
  /\ LET j == procs[p].j
     IN \E w \in AOFWrite(formatCommand(SetWord, TestBucket, KeyOf(p, j),
                                        ValueOf(p, j))) :
          /\ file' = w.file
          /\ faults' = faults + w.fault
          /\ IF w.wrote = "ok"
             THEN /\ procs' = Goto(p, "set_index")
                  /\ UNCHANGED mu
             ELSE /\ procs' = Goto(p, "get1")
                  /\ mu' = Unlocked(p)
  /\ UNCHANGED <<keys, muts>>
  /\ UNCHANGED svars
  /\ UNCHANGED wvars
  /\ UNCHANGED hvars
  /\ UNCHANGED fvars
  /\ UNCHANGED rvars
  /\ UNCHANGED dvars

\* DB.Set: the record is stored, Set returns nil and releases the lock.
CSetIndex(p) ==
  /\ At(p, "set_index")
  /\ LET j == procs[p].j
     IN /\ keys' = SetIndex(keys, TestBucket, KeyOf(p, j), ValueOf(p, j))
        /\ muts' = Append(muts, formatCommand(SetWord, TestBucket,
                                              KeyOf(p, j), ValueOf(p, j)))
        /\ procs' = [procs EXCEPT ![p].pc = "get1",
                                  ![p].okSet = @ \cup {KeyOf(p, j)}]
  /\ mu' = Unlocked(p)
  /\ UNCHANGED <<file, faults>>
  /\ UNCHANGED svars
  /\ UNCHANGED wvars
  /\ UNCHANGED hvars
  /\ UNCHANGED fvars
  /\ UNCHANGED rvars
  /\ UNCHANGED dvars

\* DB.Get: fdb.mu.RLock()
CGetLock(p) ==
  /\ At(p, "get1") \/ At(p, "get2")
  /\ CanRLock(mu)
  /\ mu' = [w |-> mu.w, r |-> mu.r \cup {p}]
  /\ procs' = Goto(p, IF At(p, "get1") THEN "get1_read" ELSE "get2_read")
  /\ UNCHANGED <<keys, file, faults, muts>>
  /\ UNCHANGED svars
  /\ UNCHANGED wvars
  /\ UNCHANGED hvars
  /\ UNCHANGED fvars
  /\ UNCHANGED rvars
  /\ UNCHANGED dvars

\* DB.Get: the lookup and the deferred RUnlock; the caller then holds the
\* result (the assertions of the test are made on it).
CGetRead(p) ==
  /\ At(p, "get1_read") \/ At(p, "get2_read")
  /\ LET key == KeyOf(p, procs[p].j)
         hit == Found(keys, TestBucket, key)
     IN procs' = [procs EXCEPT
                    ![p].pc = IF At(p, "get1_read") THEN "chk1" ELSE "chk2",
                    ![p].found = hit,
                    ![p].v = IF hit THEN keys[TestBucket][key] ELSE <<>>]
  /\ mu' = [w |-> mu.w, r |-> mu.r \ {p}]
  /\ UNCHANGED <<keys, file, faults, muts>>
  /\ UNCHANGED svars
  /\ UNCHANGED wvars
  /\ UNCHANGED hvars
  /\ UNCHANGED fvars
  /\ UNCHANGED rvars
  /\ UNCHANGED dvars

\* The caller goes on: to Del when j is even, else to the next round.
CNext(p) ==
  /\ At(p, "chk1") \/ At(p, "chk2")
  /\ LET j == procs[p].j
     IN procs' = IF At(p, "chk1") /\ j % 2 = 0 THEN Goto(p, "del")
                 ELSE IF j + 1 < NumOps
                      THEN [procs EXCEPT ![p].pc = "set", ![p].j = j + 1]
                      ELSE Goto(p, "done")
  /\ UNCHANGED <<keys, file, faults, mu, muts>>
  /\ UNCHANGED svars
  /\ UNCHANGED wvars
  /\ UNCHANGED hvars
  /\ UNCHANGED fvars
  /\ UNCHANGED rvars
  /\ UNCHANGED dvars

\* DB.Del: defer fdb.lockUnlock()()
CDelLock(p) ==
  /\ At(p, "del")
  /\ CanLock(mu)
  /\ mu' = Locked(p)
  /\ procs' = Goto(p, "del_write")
  /\ UNCHANGED <<keys, file, faults, muts>>
  /\ UNCHANGED svars
  /\ UNCHANGED wvars
  /\ UNCHANGED hvars
  /\ UNCHANGED fvars
  /\ UNCHANGED rvars
  /\ UNCHANGED dvars

\* DB.Del: the two lookups, then fdb.aof.Write; a miss returns (false, nil)
\* and an error (false, error), both at once.
CDelWrite(p) ==
  /\ At(p, "del_write")
  /\ LET key == KeyOf(p, procs[p].j)
     IN IF ~Found(keys, TestBucket, key)
        THEN /\ procs' = Goto(p, "get2")
             /\ mu' = Unlocked(p)
             /\ UNCHANGED <<file, faults>>
        ELSE \E w \in AOFWrite(formatCommand(DelWord, TestBucket, key,
                                             <<>>)) :
               /\ file' = w.file
               /\ faults' = faults + w.fault
               /\ IF w.wrote = "ok"
                  THEN /\ procs' = Goto(p, "del_index")
                       /\ UNCHANGED mu
                  ELSE /\ procs' = Goto(p, "get2")
                       /\ mu' = Unlocked(p)
  /\ UNCHANGED <<keys, muts>>
  /\ UNCHANGED svars
  /\ UNCHANGED wvars
  /\ UNCHANGED hvars
  /\ UNCHANGED fvars
  /\ UNCHANGED rvars
  /\ UNCHANGED dvars

\* DB.Del: the record is removed, Del returns (true, nil) and releases the
\* lock.
CDelIndex(p) ==
  /\ At(p, "del_index")
  /\ LET key == KeyOf(p, procs[p].j)
     IN /\ keys' = DelIndex(keys, TestBucket, key)
        /\ muts' = Append(muts, formatCommand(DelWord, TestBucket, key,
                                              <<>>))
        /\ procs' = [procs EXCEPT ![p].pc = "get2",
                                  ![p].okDel = @ \cup {key}]
  /\ mu' = Unlocked(p)
  /\ UNCHANGED <<file, faults>>
  /\ UNCHANGED svars
  /\ UNCHANGED wvars
  /\ UNCHANGED hvars
  /\ UNCHANGED fvars
  /\ UNCHANGED rvars
  /\ UNCHANGED dvars

NextConc ==
  \E p \in Procs :
    \/ CSetLock(p)
    \/ CSetWrite(p)
    \/ CSetIndex(p)
    \/ CGetLock(p)
    \/ CGetRead(p)
    \/ CNext(p)
    \/ CDelLock(p)
    \/ CDelWrite(p)
    \/ CDelIndex(p)

SpecConc == InitConc /\ [][NextConc]_vars

(***************************************************************************)
(* Durability of the log of a file-backed store that one caller uses: the  *)
(* Sync of Write when syncTime is 0, the Sync of the goroutine AOF.flush   *)
(* on each tick of its ticker when it is not, the Sync of Close, and a     *)
(* power failure, after which the file holds the bytes that were synced    *)
(* and any part of the bytes appended since.                               *)
(***************************************************************************)
DurInputs ==
  {<<<<"b">>, 1, <<"a">>>>, <<<<"b">>, 1, <<"c">>>>, <<<<"b">>, 2, <<"a">>>>}

\* A faulty variant of SyncedAfterWrite: Write does not sync.
NotSyncedAfterWrite(st, w, dur) == dur

\* The bytes on stable storage after AOF.Write with result w: the Sync that
\* follows a successful append when syncTime is 0 makes the whole file
\* durable.
SyncedAfterWrite(st, w, dur) ==
  IF w.wrote = "ok" /\ st = 0 THEN w.file.data ELSE dur

\* The store as Open returns it for a path that holds no file.
InitDur ==
  /\ db = "live"
  /\ aof = "open"
  /\ syncTime \in ConcSyncTimes
  /\ keys = EmptyMap
  /\ file = FileOf(<<>>)
  /\ bak = NoFile
  /\ dpc = "idle"
  /\ todo = <<>>
  /\ ret = Ret("open", <<>>, 0, <<>>, FALSE, FALSE, "none")
  /\ faults = 0
  /\ appended = 0
  /\ preClose = NoIndex
  /\ preDefrag = NoDefrag
  /\ mu = [w |-> {}, r |-> {}]
  /\ amu = {}
  /\ writers = <<>>
  /\ defragged = FALSE
  /\ flushers = <<>>
  /\ fd = [gen |-> 0, open |-> FALSE]
  /\ call = [pc |-> "idle", due |-> {}, done |-> {}]
  /\ objs = <<>>
  /\ ref = EmptyMap
  /\ procs = <<>>
  /\ muts = <<>>
  /\ durable = <<>>
  /\ flusher = IF syncTime = 0 THEN "none" ELSE "running"
  /\ acked = 0

\* DB.Set
DurSet(bucket, key, value) ==
  /\ db = "live"
  /\ IF ~validateSetInput(bucket, key)
     THEN /\ ret' = Ret("set", bucket, key, value, TRUE, FALSE, "none")
          /\ UNCHANGED <<keys, file, faults, appended, durable, acked>>
     ELSE \E w \in AOFWrite(formatCommand(SetWord, bucket, key, value)) :
            /\ file.data # w.file.data => appended < MaxLog
            /\ file' = w.file
            /\ faults' = faults + w.fault
            /\ appended' = IF file.data # w.file.data THEN appended + 1
                           ELSE appended
            /\ durable' = SyncedAfterWrite(syncTime, w, durable)
            /\ keys' = IndexAfterWrite(w.wrote, keys,
                                       SetIndex(keys, bucket, key, value))
            /\ acked' = IF w.wrote = "ok" THEN Len(w.file.data) ELSE acked
            /\ ret' = Ret("set", bucket, key, value, w.wrote # "ok", FALSE,
                          w.wrote)
  /\ UNCHANGED <<db, aof, syncTime, bak, dpc, todo, preClose, preDefrag,
                 flusher>>
  /\ UNCHANGED cvars
  /\ UNCHANGED wvars
  /\ UNCHANGED hvars
  /\ UNCHANGED fvars
  /\ UNCHANGED rvars

\* DB.Del
DurDel(bucket, key) ==
  /\ db = "live"
  /\ IF ~Found(keys, bucket, key)
     THEN /\ ret' = Ret("del", bucket, key, <<>>, FALSE, FALSE, "none")
          /\ UNCHANGED <<keys, file, faults, appended, durable, acked>>
     ELSE \E w \in AOFWrite(formatCommand(DelWord, bucket, key, <<>>)) :
            /\ file.data # w.file.data => appended < MaxLog
            /\ file' = w.file
            /\ faults' = faults + w.fault
            /\ appended' = IF file.data # w.file.data THEN appended + 1
                           ELSE appended
            /\ durable' = SyncedAfterWrite(syncTime, w, durable)
            /\ keys' = IndexAfterWrite(w.wrote, keys,
                                       DelIndex(keys, bucket, key))
            /\ acked' = IF w.wrote = "ok" THEN Len(w.file.data) ELSE acked
            /\ ret' = Ret("del", bucket, key, <<>>, w.wrote # "ok",
                          w.wrote = "ok", w.wrote)
  /\ UNCHANGED <<db, aof, syncTime, bak, dpc, todo, preClose, preDefrag,
                 flusher>>
  /\ UNCHANGED cvars
  /\ UNCHANGED wvars
  /\ UNCHANGED hvars
  /\ UNCHANGED fvars
  /\ UNCHANGED rvars

\* DB.Close with AOF.Close: Sync, then Close of the file; the index is
\* cleared when both have succeeded.
DurClose ==
  /\ db = "live"
  /\ IF aof = "closed"
     THEN /\ ret' = Ret("close", <<>>, 0, <<>>, TRUE, FALSE, "none")
          /\ UNCHANGED <<aof, keys, durable, faults>>
     ELSE \/ /\ durable' = file.data
             /\ aof' = "closed"
             /\ keys' = EmptyMap
             /\ ret' = Ret("close", <<>>, 0, <<>>, FALSE, FALSE, "none")
             /\ UNCHANGED faults
          \/ /\ faults < MaxFaults
             /\ faults' = faults + 1
             /\ ret' = Ret("close", <<>>, 0, <<>>, TRUE, FALSE, "none")
             /\ UNCHANGED <<aof, keys, durable>>
  /\ UNCHANGED <<db, syncTime, file, bak, dpc, todo, appended, preClose,
                 preDefrag, flusher, acked>>
  /\ UNCHANGED cvars
  /\ UNCHANGED wvars
  /\ UNCHANGED hvars
  /\ UNCHANGED fvars
  /\ UNCHANGED rvars

\* The period of the ticker of AOF.flush has passed.  The goroutine, while
\* it runs, calls Sync on the file and leaves its loop when Sync returns an
\* error (the file is closed, or the environment makes the Sync fail).
Flush ==
  /\ db = "live"
  /\ syncTime # 0
  /\ ret' = Ret("tick", <<>>, 0, <<>>, FALSE, FALSE, "none")
  /\ IF flusher = "running"
     THEN IF aof = "open"
          THEN \/ /\ durable' = file.data
                  /\ UNCHANGED <<flusher, faults>>
               \/ /\ faults < MaxFaults
                  /\ faults' = faults + 1
                  /\ flusher' = "stopped"
                  /\ UNCHANGED durable
          ELSE /\ flusher' = "stopped"
               /\ UNCHANGED <<durable, faults>>
     ELSE UNCHANGED <<durable, flusher, faults>>
  /\ UNCHANGED <<db, aof, syncTime, keys, file, bak, dpc, todo, appended,
                 preClose, preDefrag, acked>>
  /\ UNCHANGED cvars
  /\ UNCHANGED wvars
  /\ UNCHANGED hvars
  /\ UNCHANGED fvars
  /\ UNCHANGED rvars

\* The power fails: the process stops, and the file keeps the durable bytes
\* and some part of the bytes appended after the last Sync.
PowerFailure ==
  /\ db = "live"
  /\ db' = "crashed"
  /\ aof' = "nil"
  /\ keys' = EmptyMap
  /\ flusher' = "none"
  /\ \E n \in Len(durable)..Len(file.data) :
       file' = FileOf(SubSeq(file.data, 1, n))
  /\ ret' = Ret("powerfail", <<>>, 0, <<>>, FALSE, FALSE, "none")
  /\ UNCHANGED <<syncTime, bak, dpc, todo, faults, appended, preClose,
                 preDefrag, durable, acked>>
  /\ UNCHANGED cvars
  /\ UNCHANGED wvars
  /\ UNCHANGED hvars
  /\ UNCHANGED fvars
  /\ UNCHANGED rvars

NextDur ==
  \/ \E i \in DurInputs : DurSet(i[1], i[2], i[3])
  \/ \E i \in DurInputs : DurDel(i[1], i[2])
  \/ DurClose
  \/ Flush
  \/ PowerFailure

SpecDur == InitDur /\ [][NextDur]_vars

(***************************************************************************)
(* Open of a path that holds an arbitrary file: the file is made of up to  *)
(* MaxLines lines, each ended by a newline.                                *)
(***************************************************************************)
MaxLines == 3    \* lines of the file that Open finds

FileLines ==
  {SetWord, DelWord, <<"b", US, "1">>, <<"b", US, "2">>, <<"b">>,
   <<"b", US, "x">>, <<"a">>, <<>>}

RECURSIVE JoinLines(_)
JoinLines(ls) ==
  IF ls = <<>> THEN <<>> ELSE Head(ls) \o <<NL>> \o JoinLines(Tail(ls))

FoundFiles ==
  {FileOf(JoinLines(ls)) :
     ls \in UNION {[1..n -> FileLines] : n \in 0..MaxLines}}

InitOpen ==
  /\ db = "none"
  /\ aof = "nil"
  /\ syncTime = 0
  /\ keys = EmptyMap
  /\ file \in FoundFiles
  /\ bak = NoFile
  /\ dpc = "idle"
  /\ todo = <<>>
  /\ ret = Ret("none", <<>>, 0, <<>>, FALSE, FALSE, "none")
  /\ faults = 0
  /\ appended = 0
  /\ preClose = NoIndex
  /\ preDefrag = NoDefrag
  /\ mu = [w |-> {}, r |-> {}]
  /\ amu = {}
  /\ writers = <<>>
  /\ defragged = FALSE
  /\ flushers = <<>>
  /\ fd = [gen |-> 0, open |-> FALSE]
  /\ call = [pc |-> "idle", due |-> {}, done |-> {}]
  /\ objs = <<>>
  /\ ref = EmptyMap
  /\ procs = <<>>
  /\ muts = <<>>
  /\ durable = <<>>
  /\ flusher = "none"
  /\ acked = 0

NextOpen == OpenFile

SpecOpen == InitOpen /\ [][NextOpen]_vars

(***************************************************************************)
(* A file-backed store whose buckets have underscores in their names, as   *)
(* in Test_Set_wrongBucket: Open, Set, Del and Close.                      *)
(***************************************************************************)
UnderscoreBuckets == {<<"u", US, "s">>, <<"a", US, "1">>, <<US>>}

UnderscoreInputs ==
  {<<b, k, v>> : b \in UnderscoreBuckets, k \in {1, 2},
                 v \in {<<"a">>, <<BS, "n">>}}

NextBuckets ==
  \/ OpenFile
  \/ \E i \in UnderscoreInputs : DBSet(i[1], i[2], i[3])
  \/ \E i \in UnderscoreInputs : DBDel(i[1], i[2])
  \/ DBClose

SpecBuckets == Init /\ [][NextBuckets]_vars

(***************************************************************************)
(* The persister used on its own, as in the tests of package persist:      *)
(* OpenPersister, Write of an entry that the caller has put together,      *)
(* and Close.                                                              *)
(***************************************************************************)
EntryHeads == {SetWord, DelWord, <<"a">>}

EntryKeys == {<<"b", US, "1">>, SetWord \o <<US, "1">>, <<"b">>,
              <<"b", US, "x">>}

\* The lines after the key line: none, a value, an empty value, two lines.
EntryValues == {<<>>, << <<"a">> >>, << <<>> >>, << <<"a">>, <<"a">> >>}

\* The entries handed to Write: a first line, a key line and the lines
\* after it, each ended by a newline, and the same without the last newline.
Entries ==
  LET whole == {JoinLines(<<h, k>> \o t) :
                  h \in EntryHeads, k \in EntryKeys, t \in EntryValues}
  IN whole \cup {SubSeq(e, 1, Len(e) - 1) : e \in whole}

\* The persister as OpenPersister returns it for a path that holds no file.
InitPersist ==
  /\ db = "none"
  /\ aof = "open"
  /\ syncTime = 0
  /\ keys = EmptyMap
  /\ file = FileOf(<<>>)
  /\ bak = NoFile
  /\ dpc = "idle"
  /\ todo = <<>>
  /\ ret = Ret("open", <<>>, 0, <<>>, FALSE, FALSE, "none")
  /\ faults = 0
  /\ appended = 0
  /\ preClose = NoIndex
  /\ preDefrag = NoDefrag
  /\ mu = [w |-> {}, r |-> {}]
  /\ amu = {}
  /\ writers = <<>>
  /\ defragged = FALSE
  /\ flushers = <<>>
  /\ fd = [gen |-> 0, open |-> FALSE]
  /\ call = [pc |-> "idle", due |-> {}, done |-> {}]
  /\ objs = <<>>
  /\ ref = EmptyMap
  /\ procs = <<>>
  /\ muts = <<>>
  /\ durable = <<>>
  /\ flusher = "none"
  /\ acked = 0

\* AOF.Write
Write(lines) ==
  /\ aof # "nil"
  /\ \E w \in AOFWrite(lines) :
       /\ file.data # w.file.data => appended < MaxLog
       /\ file' = w.file
       /\ faults' = faults + w.fault
       /\ appended' = IF file.data # w.file.data THEN appended + 1
                      ELSE appended
       /\ ret' = Ret("write", <<>>, 0, lines, w.wrote # "ok", FALSE, w.wrote)
  /\ UNCHANGED <<db, aof, syncTime, keys, bak, dpc, todo, preClose,
                 preDefrag>>
  /\ UNCHANGED cvars
  /\ UNCHANGED wvars
  /\ UNCHANGED hvars
  /\ UNCHANGED fvars
  /\ UNCHANGED rvars
  /\ UNCHANGED dvars

\* AOF.Close: Sync and Close of the file; both fail on a closed file.
Close ==
  /\ aof # "nil"
  /\ aof' = "closed"
  /\ ret' = Ret("close", <<>>, 0, <<>>, aof = "closed", FALSE, "none")
  /\ UNCHANGED <<db, syncTime, keys, file, bak, dpc, todo, faults, appended,
                 preClose, preDefrag>>
  /\ UNCHANGED cvars
  /\ UNCHANGED wvars
  /\ UNCHANGED hvars
  /\ UNCHANGED fvars
  /\ UNCHANGED rvars
  /\ UNCHANGED dvars

\* OpenPersister on the path of the file: the persister and the keys it
\* returns, both nil with an error.
OpenPersister ==
  /\ aof # "open"
  /\ LET r == Replay(file.data)
     IN /\ aof' = IF r.ok THEN "open" ELSE "nil"
        /\ keys' = r.keys
        /\ ret' = Ret("open", <<>>, 0, <<>>, ~r.ok, FALSE, "none")
  /\ UNCHANGED <<db, syncTime, file, bak, dpc, todo, faults, appended,
                 preClose, preDefrag>>
  /\ UNCHANGED cvars
  /\ UNCHANGED wvars
  /\ UNCHANGED hvars
  /\ UNCHANGED fvars
  /\ UNCHANGED rvars
  /\ UNCHANGED dvars

NextPersist ==
  \/ \E lines \in Entries : Write(lines)
  \/ Close
  \/ OpenPersister

SpecPersist == InitPersist /\ [][NextPersist]_vars

(***************************************************************************)
(* Test_OpenPersister_concurrentWrites: goroutines that call Write on one  *)
(* persister, the caller waiting for all of them before Close and          *)
(* OpenPersister.  Write holds AOF.mu from its first statement to its      *)
(* return.  WriteString hands the bytes to the file in one piece or, after *)
(* a short count, in two.  The flush goroutine only calls Sync, which      *)
(* leaves the content of the file alone, and has no action here.           *)
(***************************************************************************)
NumWriters == 3  \* goroutines that call Write

Writers == 0..(NumWriters - 1)

KeyBucket == <<"k", "e", "y">>

WriterValue(i) ==
  <<"v", "a", "l", "u", "e", " ", "f", "o", "r", " ", "k", "e", "y", " ">>
    \o Itoa(i)

\* fmt.Sprintf("set\nkey_%d\nvalue for key %d\n", i, i)
WriterLines(i) ==
  JoinLines(<<SetWord, KeyBucket \o <<US>> \o Itoa(i), WriterValue(i)>>)

InitWrites ==
  /\ db = "none"
  /\ aof = "open"
  /\ syncTime = 100
  /\ keys = EmptyMap
  /\ file = FileOf(<<>>)
  /\ bak = NoFile
  /\ dpc = "idle"
  /\ todo = <<>>
  /\ ret = Ret("open", <<>>, 0, <<>>, FALSE, FALSE, "none")
  /\ faults = 0
  /\ appended = 0
  /\ preClose = NoIndex
  /\ preDefrag = NoDefrag
  /\ mu = [w |-> {}, r |-> {}]
  /\ procs = <<>>
  /\ muts = <<>>
  /\ durable = <<>>
  /\ flusher = "none"
  /\ acked = 0
  /\ amu = {}
  /\ writers = [p \in Writers |-> [pc |-> "write", n |-> 0]]
  /\ defragged = FALSE
  /\ flushers = <<>>
  /\ fd = [gen |-> 0, open |-> FALSE]
  /\ call = [pc |-> "idle", due |-> {}, done |-> {}]
  /\ objs = <<>>
  /\ ref = EmptyMap

\* A faulty variant of TryLock: the mutex excludes nobody.
TryLockAlways(holders) == TRUE

\* sync.Mutex: Lock returns once nobody holds the mutex.
TryLock(holders) == holders = {}

\* AOF.Write: defer aof.lockUnlock()()
WLock(p) ==
  /\ writers[p].pc = "write"
  /\ TryLock(amu)
  /\ amu' = amu \cup {p}
  /\ writers' = [writers EXCEPT ![p].pc = "locked"]
  /\ UNCHANGED <<keys, file, faults>>
  /\ UNCHANGED svars
  /\ UNCHANGED cvars
  /\ UNCHANGED dvars
  /\ UNCHANGED hvars
  /\ UNCHANGED fvars
  /\ UNCHANGED rvars

\* AOF.Write: validateData, then WriteString, whose first write call takes
\* n bytes of the entry.  An error returns and unlocks.
WWriteString(p) ==
  /\ writers[p].pc = "locked"
  /\ LET lines == WriterLines(p)
     IN IF validateData(lines) /\ aof = "open"
        THEN \E n \in 1..Len(lines) :
               /\ file' = FileOf(file.data \o SubSeq(lines, 1, n))
               /\ writers' = [writers EXCEPT
                                ![p] = [pc |-> IF n = Len(lines)
                                               THEN "written" ELSE "rest",
                                        n |-> n]]
               /\ UNCHANGED <<amu, ret>>
        ELSE /\ writers' = [writers EXCEPT ![p].pc = "done"]
             /\ amu' = amu \ {p}
             /\ ret' = Ret("write", <<>>, 0, lines, TRUE, FALSE, "none")
             /\ UNCHANGED file
  /\ UNCHANGED <<keys, faults>>
  /\ UNCHANGED <<db, aof, syncTime, bak, dpc, todo, appended, preClose,
                 preDefrag>>
  /\ UNCHANGED cvars
  /\ UNCHANGED dvars
  /\ UNCHANGED hvars
  /\ UNCHANGED fvars
  /\ UNCHANGED rvars

\* WriteString after a short count: the rest of the entry.
WWriteRest(p) ==
  /\ writers[p].pc = "rest"
  /\ LET lines == WriterLines(p)
     IN file' = FileOf(file.data \o SubSeq(lines, writers[p].n + 1,
                                           Len(lines)))
  /\ writers' = [writers EXCEPT ![p] = [pc |-> "written",
                                        n |-> Len(WriterLines(p))]]
  /\ UNCHANGED <<keys, faults, amu>>
  /\ UNCHANGED svars
  /\ UNCHANGED cvars
  /\ UNCHANGED dvars
  /\ UNCHANGED hvars
  /\ UNCHANGED fvars
  /\ UNCHANGED rvars

\* AOF.Write: Sync when syncTime is 0, the return and the deferred Unlock.
WReturn(p) ==
  /\ writers[p].pc = "written"
  /\ writers' = [writers EXCEPT ![p].pc = "done"]
  /\ amu' = amu \ {p}
  /\ ret' = Ret("write", <<>>, 0, WriterLines(p), FALSE, FALSE, "ok")
  /\ UNCHANGED <<keys, file, faults>>
  /\ UNCHANGED <<db, aof, syncTime, bak, dpc, todo, appended, preClose,
                 preDefrag>>
  /\ UNCHANGED cvars
  /\ UNCHANGED dvars
  /\ UNCHANGED hvars
  /\ UNCHANGED fvars
  /\ UNCHANGED rvars

\* wg.Wait() and aof.Close()
WaitClose ==
  /\ \A p \in Writers : writers[p].pc = "done"
  /\ Close

NextWrites ==
  \/ \E p \in Writers : WLock(p)
  \/ \E p \in Writers : WWriteString(p)
  \/ \E p \in Writers : WWriteRest(p)
  \/ \E p \in Writers : WReturn(p)
  \/ WaitClose
  \/ OpenPersister

SpecWrites == InitWrites /\ [][NextWrites]_vars

(***************************************************************************)
(* The queries of the store: GetAll, GetAllSorted, GetNewIndex and Info,   *)
(* on a store opened on a log that was found on disk, between calls of     *)
(* Set and Del.                                                            *)
(***************************************************************************)
IntBits == 8     \* the width of int

MaxRecords == 2  \* entries of a log found on disk

MaxInt == 2 ^ (IntBits - 1) - 1

\* Addition of int wraps around.
WrapInt(x) == ((x + 2 ^ (IntBits - 1)) % 2 ^ IntBits) - 2 ^ (IntBits - 1)

QueryBuckets == {<<"b">>, <<"c">>}

\* The records of the logs found on disk, the records that Set stores and
\* the records that Del removes.
QuerySlots == {<<<<"b">>, k>> : k \in {-1, 1, 2, MaxInt}} \cup {<<<<"c">>, 1>>}

QuerySets == {<<<<"b">>, 1>>, <<<<"b">>, MaxInt>>}

QueryDels == {<<<<"b">>, 1>>, <<<<"c">>, 1>>}

QueryValue(k) == <<"v">> \o Itoa(k)

QueryEntries ==
  {formatCommand(SetWord, s[1], s[2], QueryValue(s[2])) : s \in QuerySlots}
    \cup {formatCommand(DelWord, s[1], s[2], <<>>) : s \in QueryDels}

RECURSIVE ConcatAll(_)
ConcatAll(ss) == IF ss = <<>> THEN <<>> ELSE Head(ss) \o ConcatAll(Tail(ss))

QueryFiles ==
  {FileOf(ConcatAll(es)) :
     es \in UNION {[1..n -> QueryEntries] : n \in 0..MaxRecords}}

InitQuery ==
  /\ db = "none"
  /\ aof = "nil"
  /\ syncTime = 0
  /\ keys = EmptyMap
  /\ file \in QueryFiles
  /\ bak = NoFile
  /\ dpc = "idle"
  /\ todo = <<>>
  /\ ret = Ret("none", <<>>, 0, <<>>, FALSE, FALSE, "none")
  /\ faults = 0
  /\ appended = 0
  /\ preClose = NoIndex
  /\ preDefrag = NoDefrag
  /\ mu = [w |-> {}, r |-> {}]
  /\ amu = {}
  /\ writers = <<>>
  /\ defragged = FALSE
  /\ flushers = <<>>
  /\ fd = [gen |-> 0, open |-> FALSE]
  /\ call = [pc |-> "idle", due |-> {}, done |-> {}]
  /\ objs = <<>>
  /\ ref = EmptyMap
  /\ procs = <<>>
  /\ muts = <<>>
  /\ durable = <<>>
  /\ flusher = "none"
  /\ acked = 0

\* A faulty variant of Sorted: the largest element first.
RECURSIVE SortedDescending(_)
SortedDescending(S) ==
  IF S = {} THEN <<>>
  ELSE LET m == CHOOSE x \in S : \A y \in S : x >= y
       IN <<m>> \o SortedDescending(S \ {m})

\* slices.Sorted(maps.Keys(m)), given the set of the keys
RECURSIVE Sorted(_)
Sorted(S) ==
  IF S = {} THEN <<>>
  ELSE LET m == CHOOSE x \in S : \A y \in S : x <= y
       IN <<m>> \o Sorted(S \ {m})

\* DB.GetAll: the map of the bucket, or nil and an error.
GetAll(idx, bucket) ==
  IF bucket \in DOMAIN idx THEN [err |-> FALSE, bmap |-> idx[bucket]]
  ELSE [err |-> TRUE, bmap |-> EmptyMap]

\* DB.GetAllSorted: the records of the bucket in the order of sortedKeys.
GetAllSorted(idx, bucket) ==
  LET memRecords == GetAll(idx, bucket)
      sortedKeys == Sorted(DOMAIN memRecords.bmap)
  IN IF memRecords.err THEN [err |-> TRUE, recs |-> <<>>]
     ELSE [err |-> FALSE,
           recs |-> [count \in 1..Len(sortedKeys) |->
                       [SortField |-> sortedKeys[count],
                        Data |-> memRecords.bmap[sortedKeys[count]]]]]

\* The value of lkey after the loop of GetNewIndex over the keys in S.
RECURSIVE LargestKey(_, _)
LargestKey(S, lkey) ==
  IF S = {} THEN lkey
  ELSE LET key == CHOOSE x \in S : TRUE
       IN LargestKey(S \ {key}, IF key > lkey THEN key ELSE lkey)

\* DB.GetNewIndex
GetNewIndex(idx, bucket) ==
  LET memRecords == GetAll(idx, bucket)
  IN IF memRecords.err THEN 1
     ELSE WrapInt(LargestKey(DOMAIN memRecords.bmap, 0) + 1)

\* The value of count after the loop of Info over the buckets in B.
RECURSIVE CountRecords(_, _)
CountRecords(idx, B) ==
  IF B = {} THEN 0
  ELSE LET i == CHOOSE x \in B : TRUE
       IN Cardinality(DOMAIN idx[i]) + CountRecords(idx, B \ {i})

\* fmt.Sprintf("%d record(s) in %d bucket(s)", count, buckets)
InfoText(count, buckets) ==
  Itoa(count) \o <<" record(s) in ">> \o Itoa(buckets) \o <<" bucket(s)">>

\* DB.Info
Info(idx) ==
  InfoText(CountRecords(idx, DOMAIN idx), Cardinality(DOMAIN idx))

\* A query leaves everything but the record of the call as it is.
Query(r) ==
  /\ Callable
  /\ ret' = r
  /\ UNCHANGED <<db, aof, syncTime, keys, file, bak, dpc, todo, faults,
                 appended, preClose>>
  /\ preDefrag' = NoDefrag
  /\ UNCHANGED cvars
  /\ UNCHANGED wvars
  /\ UNCHANGED hvars
  /\ UNCHANGED fvars
  /\ UNCHANGED rvars
  /\ UNCHANGED dvars

DBGetAll(bucket) ==
  LET r == GetAll(keys, bucket)
  IN Query(Ret("getall", bucket, 0, r.bmap, r.err, ~r.err, "none"))

DBGetAllSorted(bucket) ==
  LET r == GetAllSorted(keys, bucket)
  IN Query(Ret("getallsorted", bucket, 0, r.recs, r.err, ~r.err, "none"))

DBGetNewIndex(bucket) ==
  Query(Ret("getnewindex", bucket, GetNewIndex(keys, bucket), <<>>, FALSE,
            FALSE, "none"))

DBInfo == Query(Ret("info", <<>>, 0, Info(keys), FALSE, FALSE, "none"))

NextQuery ==
  \/ OpenFile
  \/ \E s \in QuerySets : DBSet(s[1], s[2], QueryValue(s[2]))
  \/ \E s \in QueryDels : DBDel(s[1], s[2])
  \/ \E b \in QueryBuckets : DBGetAll(b)
  \/ \E b \in QueryBuckets : DBGetAllSorted(b)
  \/ \E b \in QueryBuckets : DBGetNewIndex(b)
  \/ DBInfo
  \/ DBClose

SpecQuery == InitQuery /\ [][NextQuery]_vars

(***************************************************************************)
(* Open of a log of whole entries, as Test_OpenPersister_withData leaves   *)
(* it: set and del entries on a few keys, in every order.                  *)
(***************************************************************************)
MaxEntries == 3  \* entries of the log

ReplayBucket == <<"t", "e", "x", "t">>

ReplaySlots == {<<ReplayBucket, 1>>, <<ReplayBucket, 2>>, <<<<"b">>, 1>>}

ReplayValues == {<<"a">>, <<BS, "n">>}

SlotLine(s) == s[1] \o <<US>> \o Itoa(s[2])

ReplayEntries ==
  {JoinLines(<<SetWord, SlotLine(s), v>>) : s \in ReplaySlots,
                                             v \in ReplayValues}
    \cup {JoinLines(<<DelWord, SlotLine(s)>>) : s \in ReplaySlots}

ReplayFiles ==
  {FileOf(ConcatAll(es)) :
     es \in UNION {[1..n -> ReplayEntries] : n \in 0..MaxEntries}}

InitReplay ==
  /\ db = "none"
  /\ aof = "nil"
  /\ syncTime = 0
  /\ keys = EmptyMap
  /\ file \in ReplayFiles
  /\ bak = NoFile
  /\ dpc = "idle"
  /\ todo = <<>>
  /\ ret = Ret("none", <<>>, 0, <<>>, FALSE, FALSE, "none")
  /\ faults = 0
  /\ appended = 0
  /\ preClose = NoIndex
  /\ preDefrag = NoDefrag
  /\ mu = [w |-> {}, r |-> {}]
  /\ amu = {}
  /\ writers = <<>>
  /\ defragged = FALSE
  /\ flushers = <<>>
  /\ fd = [gen |-> 0, open |-> FALSE]
  /\ call = [pc |-> "idle", due |-> {}, done |-> {}]
  /\ objs = <<>>
  /\ ref = EmptyMap
  /\ procs = <<>>
  /\ muts = <<>>
  /\ durable = <<>>
  /\ flusher = "none"
  /\ acked = 0

NextReplay ==
  \/ OpenFile
  \/ DBClose

SpecReplay == InitReplay /\ [][NextReplay]_vars

(***************************************************************************)
(* Callers that run concurrently on one store, each making one call (or,   *)
(* for a writer, a few): GetAllSorted, GetNewIndex followed by Set of the  *)
(* key it returned, Info, Set and Del, Close, GetAll followed by a write   *)
(* of the caller to the map it received, and Get.  A step is one access to *)
(* DB.mu or to a map.  The bucket maps are objects: GetAll returns the map *)
(* of the bucket itself, and its callers go on reading it after RUnlock.   *)
(* A read of a map that no lock protects, made while a writer is in its    *)
(* critical section, is a data race: it returns what the map holds at that *)
(* moment, or the runtime stops the process.                               *)
(***************************************************************************)
NumCallers == 2  \* concurrent callers

MaxMuts == 2     \* calls of Set and Del of one writer

Callers == 0..(NumCallers - 1)

RaceBucket == <<"b">>

RaceKeys == {1, 2, 3}

RaceValue(p) == <<"v">> \o Itoa(p)

Programs ==
  {"sorted", "newindex", "info", "mutate", "close", "getall", "get"}

\* The bucket maps that the store holds at the start, and the log that has
\* made them.
RaceMaps == {[k \in {1} |-> <<"a">>], [k \in {2, 3} |-> <<"a">>]}

RECURSIVE LogOf(_, _)
LogOf(m, order) ==
  IF order = <<>> THEN <<>>
  ELSE formatCommand(SetWord, RaceBucket, Head(order), m[Head(order)])
         \o LogOf(m, Tail(order))

\* The record that a nil *SortRecord stands for.
NilRecord == [SortField |-> 0, Data |-> <<"nil">>]

Local(prog) ==
  [prog |-> prog, pc |-> prog, obj |-> 0, todo |-> <<>>, n |-> 0, i |-> 0,
   out |-> <<>>, err |-> FALSE, k |-> 0, lkey |-> 0, seen |-> {},
   hist |-> {}, left |-> MaxMuts]

\* DB.keys as a map of maps.
IndexOf(r, o) == [b \in DOMAIN r |-> o[r[b]]]

\* What the index holds for the bucket.
Content(r, o) ==
  IF RaceBucket \in DOMAIN r THEN [present |-> TRUE, m |-> o[r[RaceBucket]]]
  ELSE [present |-> FALSE, m |-> EmptyMap]

InitRace ==
  /\ db = "live"
  /\ aof \in {"nil", "open"}
  /\ syncTime = 0
  /\ \E start \in {EmptyMap} \cup RaceMaps :
       /\ objs = IF start = EmptyMap THEN <<>> ELSE <<start>>
       /\ ref = IF start = EmptyMap THEN EmptyMap
                ELSE MapPut(EmptyMap, RaceBucket, 1)
       /\ keys = IndexOf(ref, objs)
       /\ file = IF aof = "open" THEN FileOf(LogOf(start, Sorted(DOMAIN start)))
                 ELSE NoFile
  /\ bak = NoFile
  /\ dpc = "idle"
  /\ todo = <<>>
  /\ ret = Ret("open", <<>>, 0, <<>>, FALSE, FALSE, "none")
  /\ faults = 0
  /\ appended = 0
  /\ preClose = NoIndex
  /\ preDefrag = NoDefrag
  /\ mu = [w |-> {}, r |-> {}]
  /\ amu = {}
  /\ writers = <<>>
  /\ defragged = FALSE
  /\ flushers = <<>>
  /\ fd = [gen |-> 0, open |-> FALSE]
  /\ call = [pc |-> "idle", due |-> {}, done |-> {}]
  /\ procs \in [Callers -> {Local(prog) : prog \in Programs}]
  /\ muts = <<>>
  /\ durable = <<>>
  /\ flusher = "none"
  /\ acked = 0

\* What the steps of the callers leave alone.
RaceFrame ==
  /\ UNCHANGED <<syncTime, bak, dpc, todo, ret, faults, appended, preClose,
                 preDefrag, muts>>
  /\ UNCHANGED dvars
  /\ UNCHANGED wvars
  /\ UNCHANGED hvars
  /\ UNCHANGED fvars

\* The callers that are in a call that reads the index take note of every
\* state of the bucket that the index goes through during the call.
Track(ps, r, o) ==
  [q \in Callers |->
     IF ps[q].hist # {} /\ ps[q].pc # "done"
     THEN [ps[q] EXCEPT !.hist = @ \cup {Content(r, o)}]
     ELSE ps[q]]

\* A store of a record that never replaces one: a key that is taken gives
\* way to the next one.
HeapSetBeside(o, r, bucket, key, value) ==
  IF bucket \in DOMAIN r
  THEN [objs |-> [o EXCEPT ![r[bucket]] =
                    MapPut(@, IF key \in DOMAIN @ THEN key + 1 ELSE key,
                           value)],
        ref |-> r]
  ELSE [objs |-> Append(o, MapPut(EmptyMap, key, value)),
        ref |-> MapPut(r, bucket, Len(o) + 1)]

\* fdb.keys[bucket][key] = value, with make for a bucket that is absent
HeapSet(o, r, bucket, key, value) ==
  IF bucket \in DOMAIN r
  THEN [objs |-> [o EXCEPT ![r[bucket]] = MapPut(@, key, value)], ref |-> r]
  ELSE [objs |-> Append(o, MapPut(EmptyMap, key, value)),
        ref |-> MapPut(r, bucket, Len(o) + 1)]

\* delete(fdb.keys[bucket], key), and delete(fdb.keys, bucket) when the
\* map is empty then
HeapDel(o, r, bucket, key) ==
  LET bmap == MapDel(o[r[bucket]], key)
  IN [objs |-> [o EXCEPT ![r[bucket]] = bmap],
      ref |-> IF DOMAIN bmap = {} THEN MapDel(r, bucket) ELSE r]

\* fdb.mu.Lock() or, for shared, fdb.mu.RLock(), as the first step of a call
RaceLock(p, from, to, shared) ==
  /\ db = "live"
  /\ procs[p].pc = from
  /\ IF shared
     THEN CanRLock(mu) /\ mu' = [mu EXCEPT !.r = @ \cup {p}]
     ELSE CanLock(mu) /\ mu' = [mu EXCEPT !.w = @ \cup {p}]
  /\ procs' = [procs EXCEPT ![p].pc = to]
  /\ UNCHANGED <<db, aof, keys, file>>
  /\ UNCHANGED rvars
  /\ RaceFrame

\* A step of caller p that reads maps without a lock and changes nothing
\* but what the caller holds: it ends with the caller as in l, or with the
\* process stopped when a writer is in its critical section.
UnlockedRead(p, l) ==
  /\ \/ /\ procs' = [procs EXCEPT ![p] = l]
        /\ UNCHANGED db
     \/ /\ mu.w # {}
        /\ db' = "crashed"
        /\ UNCHANGED procs
  /\ UNCHANGED <<aof, keys, file, mu>>
  /\ UNCHANGED rvars
  /\ RaceFrame

\* The body of DB.Set (isSet) or DB.Del under the lock, and the Unlock.
Mutation(p, isSet, key, value, l) ==
  LET lines == IF isSet
               THEN formatCommand(SetWord, RaceBucket, key, value)
               ELSE formatCommand(DelWord, RaceBucket, key, <<>>)
      valid == IF isSet THEN validateSetInput(RaceBucket, key)
               ELSE Found(keys, RaceBucket, key)
      writes == IF valid /\ aof # "nil"
                THEN {w \in AOFWrite(lines) : w.fault = 0}
                ELSE {[wrote |-> IF valid THEN "ok" ELSE "none",
                       file |-> file, fault |-> 0]}
  IN \E w \in writes :
       LET h == IF w.wrote # "ok" THEN [objs |-> objs, ref |-> ref]
                ELSE IF isSet THEN HeapSet(objs, ref, RaceBucket, key, value)
                ELSE HeapDel(objs, ref, RaceBucket, key)
       IN /\ file' = w.file
          /\ objs' = h.objs
          /\ ref' = h.ref
          /\ keys' = IndexOf(h.ref, h.objs)
          /\ procs' = Track([procs EXCEPT ![p] = l], h.ref, h.objs)
          /\ mu' = [mu EXCEPT !.w = @ \ {p}]
          /\ UNCHANGED <<db, aof>>
          /\ RaceFrame

\* DB.GetAll under the shared lock, and the RUnlock: the caller holds the
\* map of the bucket, or the error.
GetAllRead(p, from, found, absent) ==
  /\ db = "live"
  /\ procs[p].pc = from
  /\ procs' = [procs EXCEPT ![p] =
       IF RaceBucket \in DOMAIN ref
       THEN [@ EXCEPT !.pc = found, !.obj = ref[RaceBucket],
                      !.hist = {Content(ref, objs)}]
       ELSE [@ EXCEPT !.pc = absent, !.err = TRUE, !.k = 1,
                      !.hist = {Content(ref, objs)}]]
  /\ mu' = [mu EXCEPT !.r = @ \ {p}]
  /\ UNCHANGED <<db, aof, keys, file>>
  /\ UNCHANGED rvars
  /\ RaceFrame

\* DB.GetAllSorted
SortedLock(p) == RaceLock(p, "sorted", "sorted_getall", TRUE)

SortedGetAll(p) == GetAllRead(p, "sorted_getall", "sorted_keys", "done")

\* slices.Sorted(maps.Keys(memRecords))
SortedKeys(p) ==
  /\ db = "live"
  /\ procs[p].pc = "sorted_keys"
  /\ UnlockedRead(p, [procs[p] EXCEPT
                        !.pc = "sorted_len",
                        !.todo = Sorted(DOMAIN objs[procs[p].obj])])

\* make([]*SortRecord, len(memRecords))
SortedLen(p) ==
  /\ db = "live"
  /\ procs[p].pc = "sorted_len"
  /\ LET n == Cardinality(DOMAIN objs[procs[p].obj])
     IN UnlockedRead(p, [procs[p] EXCEPT
                           !.pc = "sorted_loop", !.n = n,
                           !.out = [c \in 1..n |-> NilRecord]])

\* One round of the loop over sortedKeys; an index beyond the slice stops
\* the process.
SortedLoop(p) ==
  /\ db = "live"
  /\ procs[p].pc = "sorted_loop"
  /\ LET l == procs[p]
         key == Head(l.todo)
         m == objs[l.obj]
     IN IF l.todo = <<>>
        THEN UnlockedRead(p, [l EXCEPT !.pc = "done"])
        ELSE IF l.i + 1 > l.n
        THEN /\ db' = "crashed"
             /\ UNCHANGED <<aof, keys, file, mu, procs>>
             /\ UNCHANGED rvars
             /\ RaceFrame
        ELSE UnlockedRead(p, [l EXCEPT
               !.todo = Tail(@), !.i = @ + 1,
               !.out[l.i + 1] =
                 [SortField |-> key,
                  Data |-> IF key \in DOMAIN m THEN m[key] ELSE <<>>]])

\* DB.GetNewIndex
NewIndexLock(p) == RaceLock(p, "newindex", "newindex_getall", TRUE)

NewIndexGetAll(p) ==
  GetAllRead(p, "newindex_getall", "newindex_loop", "newindex_set")

\* One round of the range loop over memRecords, which yields the keys that
\* the map holds when the loop comes to them; after the loop, lkey + 1.
NewIndexLoop(p) ==
  /\ db = "live"
  /\ procs[p].pc = "newindex_loop"
  /\ LET l == procs[p]
         unseen == DOMAIN objs[l.obj] \ l.seen
     IN IF unseen = {}
        THEN UnlockedRead(p, [l EXCEPT !.pc = "newindex_set",
                                       !.k = WrapInt(l.lkey + 1)])
        ELSE \E key \in unseen :
               UnlockedRead(p, [l EXCEPT
                 !.seen = @ \cup {key},
                 !.lkey = IF key > @ THEN key ELSE @])

\* The caller stores a record under the key that GetNewIndex returned.
NewIndexSetLock(p) == RaceLock(p, "newindex_set", "newindex_in", FALSE)

NewIndexSet(p) ==
  /\ db = "live"
  /\ procs[p].pc = "newindex_in"
  /\ Mutation(p, TRUE, procs[p].k, RaceValue(p),
              [procs[p] EXCEPT !.pc = "done"])

\* DB.Info: the range loop over fdb.keys comes to the bucket, or ends.
InfoRange(p) ==
  /\ db = "live"
  /\ procs[p].pc = "info"
  /\ UnlockedRead(p, [procs[p] EXCEPT
       !.pc = IF RaceBucket \in DOMAIN ref THEN "info_count" ELSE "info_len",
       !.hist = {Content(ref, objs)}])

\* count += len(fdb.keys[i])
InfoCount(p) ==
  /\ db = "live"
  /\ procs[p].pc = "info_count"
  /\ UnlockedRead(p, [procs[p] EXCEPT
       !.pc = "info_len",
       !.n = IF RaceBucket \in DOMAIN ref
             THEN Cardinality(DOMAIN objs[ref[RaceBucket]]) ELSE 0])

\* fmt.Sprintf with count and len(fdb.keys)
InfoLen(p) ==
  /\ db = "live"
  /\ procs[p].pc = "info_len"
  /\ UnlockedRead(p, [procs[p] EXCEPT
       !.pc = "done",
       !.out = InfoText(procs[p].n, Cardinality(DOMAIN ref))])

\* DB.Set and DB.Del of a writer
MutateLock(p) == RaceLock(p, "mutate", "mutate_in", FALSE)

MutateApply(p) ==
  /\ db = "live"
  /\ procs[p].pc = "mutate_in"
  /\ LET l == [procs[p] EXCEPT
                 !.left = @ - 1,
                 !.pc = IF procs[p].left = 1 THEN "done" ELSE "mutate"]
     IN \E isSet \in BOOLEAN : \E key \in RaceKeys :
          Mutation(p, isSet, key, RaceValue(p), l)

\* DB.Close on a store without persister: no lock is taken, fdb.keys is
\* replaced by a new map.
CloseMemory(p) ==
  /\ db = "live"
  /\ procs[p].pc = "close"
  /\ aof = "nil"
  /\ ref' = EmptyMap
  /\ keys' = EmptyMap
  /\ procs' = Track([procs EXCEPT ![p].pc = "done"], EmptyMap, objs)
  /\ UNCHANGED <<db, aof, file, mu, objs>>
  /\ RaceFrame

\* DB.Close on a store with persister: defer fdb.lockUnlock()()
CloseLock(p) ==
  /\ aof # "nil"
  /\ RaceLock(p, "close", "close_in", FALSE)

\* AOF.Close, then fdb.keys is replaced by a new map, and the Unlock.
CloseFile(p) ==
  /\ db = "live"
  /\ procs[p].pc = "close_in"
  /\ IF aof = "closed"
     THEN /\ procs' = [procs EXCEPT ![p] = [@ EXCEPT !.pc = "done",
                                                       !.err = TRUE]]
          /\ UNCHANGED <<aof, keys>>
          /\ UNCHANGED rvars
     ELSE /\ aof' = "closed"
          /\ ref' = EmptyMap
          /\ keys' = EmptyMap
          /\ procs' = Track([procs EXCEPT ![p].pc = "done"], EmptyMap, objs)
          /\ UNCHANGED objs
  /\ mu' = [mu EXCEPT !.w = @ \ {p}]
  /\ UNCHANGED <<db, file>>
  /\ RaceFrame

\* DB.GetAll
GetAllLock(p) == RaceLock(p, "getall", "getall_read", TRUE)

GetAllReturn(p) == GetAllRead(p, "getall_read", "getall_held", "done")

\* The caller of GetAll stores a value in the map that it has received.
OwnWrite(p) ==
  /\ db = "live"
  /\ procs[p].pc = "getall_held"
  /\ \E key \in RaceKeys :
       /\ objs' = [objs EXCEPT ![procs[p].obj] = MapPut(@, key, <<"x">>)]
       /\ keys' = IndexOf(ref, objs')
       /\ procs' = Track([procs EXCEPT ![p].pc = "done"], ref, objs')
  /\ UNCHANGED <<db, aof, file, mu, ref>>
  /\ RaceFrame

\* DB.Get
GetLock(p) == RaceLock(p, "get", "get_read", TRUE)

GetRead(p) ==
  /\ db = "live"
  /\ procs[p].pc = "get_read"
  /\ \E key \in RaceKeys :
       procs' = [procs EXCEPT ![p] =
         [@ EXCEPT !.pc = "done", !.k = key,
                   !.err = ~Found(keys, RaceBucket, key),
                   !.out = IF Found(keys, RaceBucket, key)
                           THEN keys[RaceBucket][key] ELSE <<>>]]
  /\ mu' = [mu EXCEPT !.r = @ \ {p}]
  /\ UNCHANGED <<db, aof, keys, file>>
  /\ UNCHANGED rvars
  /\ RaceFrame

NextRace ==
  \/ \E p \in Callers : SortedLock(p)
  \/ \E p \in Callers : SortedGetAll(p)
  \/ \E p \in Callers : SortedKeys(p)
  \/ \E p \in Callers : SortedLen(p)
  \/ \E p \in Callers : SortedLoop(p)
  \/ \E p \in Callers : NewIndexLock(p)
  \/ \E p \in Callers : NewIndexGetAll(p)
  \/ \E p \in Callers : NewIndexLoop(p)
  \/ \E p \in Callers : NewIndexSetLock(p)
  \/ \E p \in Callers : NewIndexSet(p)
  \/ \E p \in Callers : InfoRange(p)
  \/ \E p \in Callers : InfoCount(p)
  \/ \E p \in Callers : InfoLen(p)
  \/ \E p \in Callers : MutateLock(p)
  \/ \E p \in Callers : MutateApply(p)
  \/ \E p \in Callers : CloseMemory(p)
  \/ \E p \in Callers : CloseLock(p)
  \/ \E p \in Callers : CloseFile(p)
  \/ \E p \in Callers : GetAllLock(p)
  \/ \E p \in Callers : GetAllReturn(p)
  \/ \E p \in Callers : OwnWrite(p)
  \/ \E p \in Callers : GetLock(p)
  \/ \E p \in Callers : GetRead(p)

SpecRace == InitRace /\ [][NextRace]_vars

(***************************************************************************)
(* The goroutines of AOF.flush of one persister, and its caller in Close   *)
(* and in Defrag.  A flusher is started by `go aof.flush()`, makes its     *)
(* ticker when it first runs, and then calls aof.file.Sync() for each tick *)
(* that it receives, until Sync returns an error.  Close closes the file   *)
(* and sleeps for the interval of the ticker: a ticker that runs when the  *)
(* file is closed delivers a tick before the sleep ends, but nothing makes *)
(* the flusher receive it before Close returns.  The content of the file   *)
(* is of no account here; Spec and SpecDur have it.                        *)
(***************************************************************************)
MaxOpens == 3  \* files that the persister opens: one in OpenPersister, the
               \* others in Defrag

FlushSyncTimes == {0, 100}

Flusher(st, gen) == [st |-> st, gen |-> gen]

\* OpenPersister has returned: the file is open, `go aof.flush()` is done.
InitFlush ==
  /\ db = "live"
  /\ aof = "open"
  /\ syncTime \in FlushSyncTimes
  /\ keys = EmptyMap
  /\ file = FileOf(<<>>)
  /\ bak = NoFile
  /\ dpc = "idle"
  /\ todo = <<>>
  /\ ret = Ret("open", <<>>, 0, <<>>, FALSE, FALSE, "none")
  /\ faults = 0
  /\ appended = 0
  /\ preClose = NoIndex
  /\ preDefrag = NoDefrag
  /\ mu = [w |-> {}, r |-> {}]
  /\ procs = <<>>
  /\ muts = <<>>
  /\ durable = <<>>
  /\ flusher = "none"
  /\ acked = 0
  /\ amu = {}
  /\ writers = <<>>
  /\ defragged = FALSE
  /\ objs = <<>>
  /\ ref = EmptyMap
  /\ flushers = <<Flusher("started", 1)>>
  /\ fd = [gen |-> 1, open |-> TRUE]
  /\ call = [pc |-> "idle", due |-> {}, done |-> {}]

\* What the steps of the flushers and of Close and Defrag leave alone.
FlushFrame ==
  /\ UNCHANGED <<db, syncTime, keys, file, bak, dpc, todo, ret, faults,
                 appended, preClose, preDefrag>>
  /\ UNCHANGED cvars
  /\ UNCHANGED dvars
  /\ UNCHANGED wvars
  /\ UNCHANGED hvars
  /\ UNCHANGED rvars

\* flush runs for the first time: it returns when syncTime is 0, and makes
\* its ticker otherwise.
FlushStart(i) ==
  /\ i \in DOMAIN flushers
  /\ flushers[i].st = "started"
  /\ flushers' = [flushers EXCEPT
       ![i].st = IF syncTime = 0 THEN "stopped" ELSE "waiting"]
  /\ UNCHANGED <<aof, fd, call>>
  /\ FlushFrame

\* The ticker of flusher i delivers a tick on tick.C.
Tick(i) ==
  /\ i \in DOMAIN flushers
  /\ flushers[i].st = "waiting"
  /\ flushers' = [flushers EXCEPT ![i].st = "ticked"]
  /\ call' = [call EXCEPT !.due = @ \ {i}]
  /\ UNCHANGED <<aof, fd>>
  /\ FlushFrame

\* A flusher that goes on after an error of Sync.
FlushSyncGoesOn(i) ==
  /\ i \in DOMAIN flushers
  /\ flushers[i].st = "ticked"
  /\ flushers' = [flushers EXCEPT ![i].st = "waiting"]
  /\ UNCHANGED <<aof, fd, call>>
  /\ FlushFrame

\* Flusher i receives the tick and calls aof.file.Sync(), on the file that
\* aof.file is at that moment: an error ends the loop.
FlushSync(i) ==
  /\ i \in DOMAIN flushers
  /\ flushers[i].st = "ticked"
  /\ flushers' = [flushers EXCEPT
       ![i].st = IF fd.open THEN "waiting" ELSE "stopped"]
  /\ UNCHANGED <<aof, fd, call>>
  /\ FlushFrame

\* AOF.Close up to time.Sleep, in Close (to = "close_sleep") or in Defrag
\* (to = "defrag_sleep"): Sync of a closed file is an error.  The tickers
\* that run have a tick to deliver before the sleep ends.
CloseStart(to) ==
  /\ call.pc = "idle"
  /\ IF fd.open
     THEN /\ fd' = [fd EXCEPT !.open = FALSE]
          /\ aof' = "closed"
          /\ call' = [call EXCEPT
               !.pc = to,
               !.due = {i \in DOMAIN flushers : flushers[i].st = "waiting"}]
     ELSE UNCHANGED <<aof, fd, call>>
  /\ UNCHANGED flushers
  /\ FlushFrame

\* time.Sleep(flushPause) is over, AOF.Close returns nil.
CloseEnd(from, to) ==
  /\ call.pc = from
  /\ call.due = {}
  /\ call' = [call EXCEPT !.pc = to, !.done = @ \cup {fd.gen}]
  /\ UNCHANGED <<aof, fd, flushers>>
  /\ FlushFrame

\* AOF.Close
PersisterClose == CloseStart("close_sleep")

PersisterCloseReturn == CloseEnd("close_sleep", "idle")

\* AOF.Defrag: aof.Close()
DefragCloseStart ==
  /\ fd.gen < MaxOpens
  /\ CloseStart("defrag_sleep")

DefragCloseReturn == CloseEnd("defrag_sleep", "defrag_backup")

\* AOF.Defrag: makeBackup
DefragBackup ==
  /\ call.pc = "defrag_backup"
  /\ call' = [call EXCEPT !.pc = "defrag_reopen"]
  /\ UNCHANGED <<aof, fd, flushers>>
  /\ FlushFrame

\* writeFile: os.Remove and getData, which opens the new file and stores
\* it in aof.file
DefragReopen ==
  /\ call.pc = "defrag_reopen"
  /\ fd' = [gen |-> fd.gen + 1, open |-> TRUE]
  /\ aof' = "open"
  /\ call' = [call EXCEPT !.pc = "defrag_go"]
  /\ UNCHANGED flushers
  /\ FlushFrame

\* writeFile: go aof.flush(), and the rest of Defrag
DefragGo ==
  /\ call.pc = "defrag_go"
  /\ flushers' = Append(flushers, Flusher("started", fd.gen))
  /\ call' = [call EXCEPT !.pc = "idle"]
  /\ UNCHANGED <<aof, fd>>
  /\ FlushFrame

NextFlush ==
  \/ \E i \in 1..MaxOpens : FlushStart(i)
  \/ \E i \in 1..MaxOpens : Tick(i)
  \/ \E i \in 1..MaxOpens : FlushSync(i)
  \/ PersisterClose
  \/ PersisterCloseReturn
  \/ DefragCloseStart
  \/ DefragCloseReturn
  \/ DefragBackup
  \/ DefragReopen
  \/ DefragGo

SpecFlush == InitFlush /\ [][NextFlush]_vars

\* The scheduler runs every goroutine that can run, and the tickers keep
\* delivering their ticks.
FairSpecFlush ==
  /\ SpecFlush
  /\ \A i \in 1..MaxOpens :
       /\ WF_vars(FlushStart(i))
       /\ WF_vars(Tick(i))
       /\ WF_vars(FlushSync(i))

(***************************************************************************)
(* The two locks.  Callers of Set, Del, Get, GetAll, Defrag and Close run  *)
(* concurrently on one store with a file; a step is the taking of a lock,  *)
(* or the file operation or index access made under it with the release    *)
(* that follows.  DB.mu is taken by the methods of DB; AOF.mu is taken by  *)
(* Write, Close and getData, which the methods of DB call while they hold  *)
(* DB.mu.  A lock that is not free makes the caller wait.                  *)
(***************************************************************************)
NumLockers == 3  \* concurrent callers

Lockers == 0..(NumLockers - 1)

LockPrograms == {"set", "del", "get", "getall", "defrag", "close"}

LockBucket == <<"b">>

LockKey == 1

\* The values of the records, and the entries that the callers write, each
\* with the verdict of validateData.
LockValues == {<<"a">>} \cup {<<"v">> \o Itoa(p) : p \in Lockers}

SetLines == [v \in LockValues |->
               formatCommand(SetWord, LockBucket, LockKey, v)]

DelLines == formatCommand(DelWord, LockBucket, LockKey, <<>>)

EmitLines == [v \in LockValues |-> writeFileLines(LockBucket, LockKey, v)]

ValidLines ==
  {lines \in {SetLines[v] : v \in LockValues} \cup {DelLines}
              \cup {EmitLines[v] : v \in LockValues} :
     validateData(lines)}

InitLocks ==
  /\ db = "live"
  /\ aof = "open"
  /\ syncTime = 0
  /\ \E start \in {<<>>, formatCommand(SetWord, LockBucket, LockKey, <<"a">>)} :
       /\ file = FileOf(start)
       /\ keys = Replay(start).keys
  /\ bak = NoFile
  /\ dpc = "idle"
  /\ todo = <<>>
  /\ ret = Ret("open", <<>>, 0, <<>>, FALSE, FALSE, "none")
  /\ faults = 0
  /\ appended = 0
  /\ preClose = NoIndex
  /\ preDefrag = NoDefrag
  /\ mu = [w |-> {}, r |-> {}]
  /\ amu = {}
  /\ writers = <<>>
  /\ defragged = FALSE
  /\ flushers = <<>>
  /\ fd = [gen |-> 0, open |-> FALSE]
  /\ call = [pc |-> "idle", due |-> {}, done |-> {}]
  /\ objs = <<>>
  /\ ref = EmptyMap
  /\ procs \in [Lockers -> {[prog |-> prog, pc |-> "start", err |-> FALSE] :
                              prog \in LockPrograms}]
  /\ muts = <<>>
  /\ durable = <<>>
  /\ flusher = "none"
  /\ acked = 0

\* What the steps of these callers leave alone.
LockFrame ==
  /\ UNCHANGED <<db, syncTime, dpc, ret, faults, appended, preClose,
                 preDefrag, muts>>
  /\ UNCHANGED dvars
  /\ UNCHANGED <<writers>>
  /\ UNCHANGED hvars
  /\ UNCHANGED fvars
  /\ UNCHANGED rvars

\* A release of AOF.mu that does not release it.
AOFKeepsLock(p) == amu

\* aof.mu.Unlock(), the deferred call of AOF.lockUnlock
AOFUnlock(p) == amu \ {p}

\* The call returns: the deferred fdb.mu.Unlock()
Return(p, err) ==
  /\ mu' = Unlocked(p)
  /\ procs' = [procs EXCEPT ![p] = [@ EXCEPT !.pc = "done", !.err = err]]

\* DB.Set, DB.Del, DB.Defrag, DB.Close: fdb.mu.Lock()
LockDB(p) ==
  /\ procs[p].pc = "start"
  /\ procs[p].prog \in {"set", "del", "defrag", "close"}
  /\ CanLock(mu)
  /\ mu' = Locked(p)
  /\ procs' = Goto(p, "db")
  /\ UNCHANGED <<aof, keys, file, bak, todo, amu>>
  /\ LockFrame

\* DB.Get, DB.GetAll: fdb.mu.RLock()
RLockDB(p) ==
  /\ procs[p].pc = "start"
  /\ procs[p].prog \in {"get", "getall"}
  /\ CanRLock(mu)
  /\ mu' = [mu EXCEPT !.r = @ \cup {p}]
  /\ procs' = Goto(p, "read")
  /\ UNCHANGED <<aof, keys, file, bak, todo, amu>>
  /\ LockFrame

\* DB.Get, DB.GetAll: the lookup and the deferred RUnlock
ReadUnlock(p) ==
  /\ procs[p].pc = "read"
  /\ mu' = [mu EXCEPT !.r = @ \ {p}]
  /\ procs' = [procs EXCEPT ![p] =
       [@ EXCEPT !.pc = "done",
                 !.err = IF procs[p].prog = "get"
                         THEN ~Found(keys, LockBucket, LockKey)
                         ELSE LockBucket \notin DOMAIN keys]]
  /\ UNCHANGED <<aof, keys, file, bak, todo, amu>>
  /\ LockFrame

\* DB.Del: a record that is not found returns (false, nil).
DelMiss(p) ==
  /\ procs[p].pc = "db"
  /\ procs[p].prog = "del"
  /\ ~Found(keys, LockBucket, LockKey)
  /\ Return(p, FALSE)
  /\ UNCHANGED <<aof, keys, file, bak, todo, amu>>
  /\ LockFrame

\* AOF.Write, AOF.Close and getData: aof.mu.Lock(), called from the method
\* of DB at position from
LockAOF(p, from, to) ==
  /\ procs[p].pc = from
  /\ amu = {}
  /\ amu' = {p}
  /\ procs' = Goto(p, to)
  /\ UNCHANGED <<aof, keys, file, bak, todo, mu>>
  /\ LockFrame

\* DB.Set and DB.Del: fdb.aof.Write
WriteLock(p) ==
  /\ procs[p].prog \in {"set", "del"}
  /\ procs[p].prog = "del" => Found(keys, LockBucket, LockKey)
  /\ LockAOF(p, "db", "write")

\* AOF.Write under AOF.mu, and the release
WriteBody(p) ==
  /\ procs[p].pc = "write"
  /\ LET lines == IF procs[p].prog = "set"
                  THEN SetLines[<<"v">> \o Itoa(p)] ELSE DelLines
         ok == aof = "open" /\ lines \in ValidLines
     IN /\ file' = IF ok THEN FileOf(file.data \o lines) ELSE file
        /\ procs' = Goto(p, IF ok THEN "index" ELSE "fail")
  /\ amu' = AOFUnlock(p)
  /\ UNCHANGED <<aof, keys, bak, todo, mu>>
  /\ LockFrame

\* DB.Set and DB.Del: the index is changed, the call returns.
IndexReturn(p) ==
  /\ procs[p].pc = "index"
  /\ keys' = IF procs[p].prog = "set"
             THEN SetIndex(keys, LockBucket, LockKey, <<"v">> \o Itoa(p))
             ELSE DelIndex(keys, LockBucket, LockKey)
  /\ Return(p, FALSE)
  /\ UNCHANGED <<aof, file, bak, todo, amu>>
  /\ LockFrame

\* The method of DB returns the error of the persister.
FailReturn(p) ==
  /\ procs[p].pc = "fail"
  /\ Return(p, TRUE)
  /\ UNCHANGED <<aof, keys, file, bak, todo, amu>>
  /\ LockFrame

\* DB.Close and AOF.Defrag: aof.Close()
CloseLockAOF(p) ==
  /\ procs[p].prog \in {"defrag", "close"}
  /\ LockAOF(p, "db", "closing")

\* AOF.Close under AOF.mu, and the release: Sync of a closed file is an
\* error.
CloseBody(p) ==
  /\ procs[p].pc = "closing"
  /\ IF aof = "open"
     THEN /\ aof' = "closed"
          /\ procs' = Goto(p, IF procs[p].prog = "close" THEN "clear"
                              ELSE "backup")
     ELSE /\ procs' = Goto(p, "fail")
          /\ UNCHANGED aof
  /\ amu' = AOFUnlock(p)
  /\ UNCHANGED <<keys, file, bak, todo, mu>>
  /\ LockFrame

\* DB.Close: the index is replaced by an empty one, the call returns.
ClearReturn(p) ==
  /\ procs[p].pc = "clear"
  /\ keys' = EmptyMap
  /\ Return(p, FALSE)
  /\ UNCHANGED <<aof, file, bak, todo, amu>>
  /\ LockFrame

\* AOF.Defrag: makeBackup, and os.Remove of writeFile
BackupRemove(p) ==
  /\ procs[p].pc = "backup"
  /\ bak' = FileOf(file.data)
  /\ file' = NoFile
  /\ procs' = Goto(p, "reopen")
  /\ UNCHANGED <<aof, keys, todo, mu, amu>>
  /\ LockFrame

\* writeFile: getData
ReopenLock(p) == LockAOF(p, "reopen", "reopening")

\* getData under AOF.mu, and the release; writeFile then ranges over keys.
ReopenBody(p) ==
  /\ procs[p].pc = "reopening"
  /\ file' = FileOf(<<>>)
  /\ aof' = "open"
  /\ todo' \in WriteOrders(keys)
  /\ procs' = Goto(p, "emit")
  /\ amu' = AOFUnlock(p)
  /\ UNCHANGED <<keys, bak, mu>>
  /\ LockFrame

\* writeFile: aof.Write of the next record
EmitLock(p) ==
  /\ todo # <<>>
  /\ LockAOF(p, "emit", "emitting")

\* AOF.Write under AOF.mu, and the release
EmitBody(p) ==
  /\ procs[p].pc = "emitting"
  /\ LET bucket == todo[1][1]
         key == todo[1][2]
         lines == EmitLines[keys[bucket][key]]
         ok == aof = "open" /\ lines \in ValidLines
     IN /\ file' = IF ok THEN FileOf(file.data \o lines) ELSE file
        /\ procs' = Goto(p, IF ok THEN "emit" ELSE "fail")
        /\ todo' = IF ok THEN Tail(todo) ELSE <<>>
  /\ amu' = AOFUnlock(p)
  /\ UNCHANGED <<aof, keys, bak, mu>>
  /\ LockFrame

\* DB.Defrag returns nil when every record is written.
DefragReturn(p) ==
  /\ procs[p].pc = "emit"
  /\ todo = <<>>
  /\ Return(p, FALSE)
  /\ UNCHANGED <<aof, keys, file, bak, todo, amu>>
  /\ LockFrame

LockerNext(p) ==
  \/ LockDB(p)
  \/ RLockDB(p)
  \/ ReadUnlock(p)
  \/ DelMiss(p)
  \/ WriteLock(p)
  \/ WriteBody(p)
  \/ IndexReturn(p)
  \/ FailReturn(p)
  \/ CloseLockAOF(p)
  \/ CloseBody(p)
  \/ ClearReturn(p)
  \/ BackupRemove(p)
  \/ ReopenLock(p)
  \/ ReopenBody(p)
  \/ EmitLock(p)
  \/ EmitBody(p)
  \/ DefragReturn(p)

NextLocks == \E p \in Lockers : LockerNext(p)

SpecLocks == InitLocks /\ [][NextLocks]_vars

\* The scheduler runs every goroutine that can run, and the file
\* operations return.
FairSpecLocks == SpecLocks /\ \A p \in Lockers : WF_vars(LockerNext(p))

(***************************************************************************)
(* Properties.  A step is recognised by the call it records in ret'.       *)
(***************************************************************************)

\* The file has only ever been written by Set and Del: no I/O failure was
\* injected and no Defrag has come to write the backup.
OnlySetDel == faults = 0 /\ bak = NoFile

\* An Open of the log file that follows a successful Close of the store.
Reopen == db = "live" /\ aof = "closed" /\ preClose.set /\ ret'.op = "open"

\* C1: after any sequence of Set/Del on a file-backed store, Close and then
\* Open on the same path succeeds and yields the index that the store held
\* just before the Close.
C1_ReplayFidelity ==
  [][(Reopen /\ OnlySetDel) => (~ret'.err /\ keys' = preClose.keys)]_vars

\* C2: when Defrag has returned nil and no I/O call has failed, replaying the rewritten log from an
\* empty index yields the index the store held when Defrag was called, and
\* the index in memory is still that index.
C2_CompactionEquivalence ==
  (ret.op = "defrag" /\ ~ret.err /\ dpc = "idle" /\ db = "live"
     /\ faults = 0) =>
    /\ Replay(file.data).ok
    /\ Replay(file.data).keys = preDefrag.keys
    /\ keys = preDefrag.keys

\* C3: on a file-backed store Set and Del change the index only after Write
\* has returned nil; when Write returns an error, Set returns an error, Del
\* returns (false, error) and the index is as it was before the call.
C3_LogThenIndex ==
  [][(ret'.op \in {"set", "del"} /\ aof # "nil") =>
       /\ keys' # keys => ret'.wrote = "ok"
       /\ ret'.wrote = "err" => (ret'.err /\ ~ret'.found /\ keys' = keys)]_vars

\* C3 witness: Del of a present record has failed in Write.
C3_Witness ==
  /\ ret.op = "del" /\ ret.wrote = "err" /\ ret.err
  /\ ret.b \in DOMAIN keys /\ ret.k \in DOMAIN keys[ret.b]

\* C6: a value that contains newlines and was stored by Set is what Get
\* returns in the same session, and is again the value of its record after
\* Close and Open.
C6_NewlineRoundTrip ==
  [][/\ (ret.op = "set" /\ ~ret.err /\ Contains(ret.v, <<NL>>)
          /\ ret'.op = "get" /\ ret'.b = ret.b /\ ret'.k = ret.k) =>
         (ret'.found /\ ret'.v = ret.v)
     /\ (Reopen /\ OnlySetDel) =>
          \A b \in DOMAIN preClose.keys : \A k \in DOMAIN preClose.keys[b] :
            Contains(preClose.keys[b][k], <<NL>>) =>
              /\ ~ret'.err
              /\ b \in DOMAIN keys' /\ k \in DOMAIN keys'[b]
              /\ keys'[b][k] = preClose.keys[b][k]]_vars

\* C7: on a file-backed store whose file is open and takes the append, Set
\* with a non-empty bucket name and a non-negative key returns nil whatever
\* the value, and the Get that follows returns that value.
C7_OpaqueValues ==
  [][/\ (ret'.op = "set" /\ aof = "open" /\ faults' = faults
          /\ ret'.b # <<>> /\ ret'.k >= 0) => ~ret'.err
     /\ (ret.op = "set" /\ ~ret.err /\ aof = "open"
          /\ ret'.op = "get" /\ ret'.b = ret.b /\ ret'.k = ret.k) =>
         (ret'.found /\ ret'.v = ret.v)]_vars

\* C8: Set with an empty bucket name or a negative key returns an error and
\* changes neither the index nor the log, with or without a persister.
C8_InputRejection ==
  [][(ret'.op = "set" /\ (ret'.b = <<>> \/ ret'.k < 0)) =>
       (ret'.err /\ keys' = keys /\ file' = file)]_vars

\* C8 witness: a file-backed store that holds a record has rejected a Set.
C8_Witness ==
  /\ ret.op = "set" /\ ret.err /\ (ret.b = <<>> \/ ret.k < 0)
  /\ aof = "open" /\ keys # EmptyMap /\ file.data # <<>>

Present(idx, bucket, key) ==
  bucket \in DOMAIN idx /\ key \in DOMAIN idx[bucket]

MissSemantics ==
  /\ ret'.op = "get" => ~ret'.err
  /\ (ret'.op = "get" /\ ~Present(keys, ret'.b, ret'.k)) => ~ret'.found
  /\ (ret'.op = "del" /\ ~Present(keys, ret'.b, ret'.k)) =>
       (~ret'.found /\ ~ret'.err /\ keys' = keys /\ file' = file)
  /\ (ret.op = "del" /\ ret.found /\ ret'.op \in {"get", "del"}
        /\ ret'.b = ret.b /\ ret'.k = ret.k) => (~ret'.found /\ ~ret'.err)

\* C9 as stated: Get and Del of an absent bucket or key return not-found
\* and (false, nil) and change nothing; Del of a present record returns
\* (true, nil), after which Get returns not-found and Del (false, nil).
C9_Original ==
  [][/\ MissSemantics
     /\ (ret'.op = "del" /\ Present(keys, ret'.b, ret'.k)) =>
          (ret'.found /\ ~ret'.err /\ ~Present(keys', ret'.b, ret'.k))]_vars

\* C9 as amended: the same, but Del of a present record returns (true, nil)
\* and removes the record when the store has no persister or Write returns
\* nil; when Write fails it returns (false, error) and the record stays.
C9_MissHit ==
  [][/\ MissSemantics
     /\ (ret'.op = "del" /\ Present(keys, ret'.b, ret'.k)) =>
          IF ret'.wrote = "err"
          THEN ~ret'.found /\ ret'.err /\ keys' = keys
          ELSE ret'.found /\ ~ret'.err
               /\ ~Present(keys', ret'.b, ret'.k)]_vars

\* C9 witness: a Del that found nothing right after a Del of the same
\* record that returned true, on a file-backed store.
C9_Witness ==
  /\ ret.op = "del" /\ ~ret.found /\ ~ret.err /\ aof = "open"
  /\ Len(file.data) > 0
  /\ LET toks == ScanLines(file.data)
     IN Len(toks) >= 2 /\ toks[Len(toks) - 1] = DelWord
          /\ toks[Len(toks)] = ret.b \o <<US>> \o Itoa(ret.k)

\* C10: while Defrag runs on a log that holds entries, and when it has
\* returned or the process has stopped in it, the log file is as it was
\* when Defrag was called or the backup file is a complete copy of that log.
C10_DefragKeepsData ==
  ((dpc # "idle" \/ ret.op = "defrag") /\ preDefrag.log.data # <<>>) =>
    (file = preDefrag.log \/ bak = preDefrag.log)


\* The key of the round a caller is in.
KeyAt(p) == KeyOf(p, procs[p].j)

RECURSIVE Flat(_)
Flat(entries) ==
  IF entries = <<>> THEN <<>> ELSE Head(entries) \o Flat(Tail(entries))

\* C4: callers that run concurrently on their own keys: the Get after the
\* caller's own successful Set returns the value set, the Get after its own
\* successful Del returns not-found, and when all callers are done the
\* index holds exactly the keys that were set and not deleted, each with
\* the value set.
C4_DisjointKeys ==
  /\ \A p \in Procs :
       /\ (At(p, "chk1") /\ KeyAt(p) \in procs[p].okSet) =>
            (procs[p].found /\ procs[p].v = ValueOf(p, procs[p].j))
       /\ (At(p, "chk2") /\ KeyAt(p) \in procs[p].okDel) => ~procs[p].found
  /\ (\A p \in Procs : At(p, "done")) =>
       \A p \in Procs : \A j \in 0..(NumOps - 1) :
         IF KeyOf(p, j) \in procs[p].okSet \ procs[p].okDel
         THEN /\ Found(keys, TestBucket, KeyOf(p, j))
              /\ keys[TestBucket][KeyOf(p, j)] = ValueOf(p, j)
         ELSE ~Found(keys, TestBucket, KeyOf(p, j))

\* C4 witness: all callers are done, no call has failed, and records of
\* both callers are left.
C4_Witness ==
  /\ \A p \in Procs : At(p, "done") /\ procs[p].okSet # {} /\ procs[p].okDel # {}
  /\ faults = 0
  /\ \A p \in Procs : \E j \in 0..(NumOps - 1) :
       Found(keys, TestBucket, KeyOf(p, j))

\* C5: the entries of the log are the index updates in their order: when
\* no Set or Del is between its Write and its index update, the Nth entry
\* of the log is the entry of the Nth call that updated the index.
C5_Serialised ==
  (\A p \in Procs : ~At(p, "set_index") /\ ~At(p, "del_index")) =>
    file.data = Flat(muts)

\* C11: when the backup step of Defrag fails (the backup file cannot be
\* created, or the copy fails part-way) Defrag returns an error at that step
\* and goes on neither to remove nor to rewrite the log.
C11_BackupFailureSurfaced ==
  [][(dpc \in {"backup", "copy"} /\ faults' = faults + 1) =>
       (dpc' = "idle" /\ ret'.op = "defrag" /\ ret'.err /\ file' = file)]_vars

\* Defrag has returned nil and the store has not been called since.
DefragSucceeded ==
  ret.op = "defrag" /\ ~ret.err /\ dpc = "idle" /\ db = "live"

\* The number of lines of a file: the newline bytes in it.
LineCount(data) == Cardinality({i \in 1..Len(data) : data[i] = NL})

\* The number of records of an index.
RecordCount(idx) ==
  Cardinality(UNION {{<<b, k>> : k \in DOMAIN idx[b]} : b \in DOMAIN idx})

\* C12: after a successful Defrag the log has three lines for each record
\* of the index: every first line of three is "set", and every record is the
\* key line of exactly one of these entries.
C12_MinimalSnapshot ==
  DefragSucceeded =>
    LET toks == ScanLines(file.data)
        n == RecordCount(keys)
    IN /\ LineCount(file.data) = 3 * n
       /\ Len(toks) = 3 * n
       /\ \A e \in 0..(n - 1) : toks[3 * e + 1] = SetWord
       /\ \A b \in DOMAIN keys : \A k \in DOMAIN keys[b] :
            Cardinality({e \in 0..(n - 1) :
                           toks[3 * e + 2] = b \o <<US>> \o Itoa(k)}) = 1

\* C12 witness: a successful Defrag of a log that was longer than its
\* snapshot (a record had been overwritten or deleted).
C12_Witness ==
  /\ DefragSucceeded
  /\ keys # EmptyMap
  /\ LineCount(preDefrag.log.data) > LineCount(file.data)

\* C13: when Defrag has returned nil the backup file is a copy, byte for
\* byte, of the log as it was when Defrag was called; and Open, Set, Get,
\* Del and Close leave the backup file as it is.
C13_BackupArtifact ==
  [][/\ DefragSucceeded' => bak' = preDefrag'.log
     /\ ret'.op \in {"open", "set", "get", "del", "close"} => bak' = bak]_vars

C15_BoundedWindow ==
  [][syncTime # 0 =>
       /\ (ret'.op = "tick" /\ aof = "open" /\ faults' = faults) =>
            durable' = file.data
       /\ (ret'.op = "close" /\ ~ret'.err) => durable' = file.data
       /\ ret'.op = "powerfail" =>
            /\ Len(file'.data) >= Len(durable)
            /\ file'.data = SubSeq(file.data, 1, Len(file'.data))]_vars

\* A line of the form name_integer: the part after its last underscore is
\* a decimal number, with or without a sign.
KeyLine(l) ==
  \E u \in 1..Len(l) :
    /\ l[u] = US
    /\ \A h \in (u + 1)..Len(l) : l[h] # US
    /\ LET num == SubSeq(l, u + 1, Len(l))
           body == IF num # <<>> /\ num[1] \in {"+", "-"} THEN Tail(num)
                   ELSE num
       IN /\ body # <<>>
          /\ \A h \in 1..Len(body) :
               body[h] \in {"0", "1", "2", "3", "4", "5", "6", "7", "8", "9"}

\* The lines are a sequence of records of the protocol: "set", a key line
\* and a value line, or "del" and a key line.
RECURSIVE Grammatical(_)
Grammatical(ls) ==
  \/ ls = <<>>
  \/ /\ Len(ls) >= 3 /\ ls[1] = SetWord /\ KeyLine(ls[2])
     /\ Grammatical(SubSeq(ls, 4, Len(ls)))
  \/ /\ Len(ls) >= 2 /\ ls[1] = DelWord /\ KeyLine(ls[2])
     /\ Grammatical(SubSeq(ls, 3, Len(ls)))

\* The lines of a file, without their newlines.
LinesOf(data) ==
  LET parts == Split(data, NL)
  IN IF parts[Len(parts)] = <<>> THEN SubSeq(parts, 1, Len(parts) - 1)
     ELSE parts

\* C16: Open of a log whose lines are not a sequence of records (unknown
\* instruction, missing field, key line not of the form name_integer)
\* returns an error, no persister and no record, and leaves the file as it
\* was.
C16_CorruptionDetected ==
  [][(ret'.op = "open" /\ file.exists /\ ~Grammatical(LinesOf(file.data))) =>
       (ret'.err /\ aof' = "nil" /\ keys' = EmptyMap /\ file' = file)]_vars

\* C16 witness: Open has failed on a log whose first record is well formed
\* and whose last line is no instruction.
C16_Witness ==
  /\ ret.op = "open" /\ ret.err /\ db = "failed"
  /\ LET ls == LinesOf(file.data)
     IN Len(ls) = 3 /\ ls[1] = DelWord /\ KeyLine(ls[2]) /\ ls[3] = <<"a">>

\* C17: an Open that fails returns an error and no store: no operation is
\* afterwards invoked on what it returned.
C17_NoStoreOnFailure ==
  [][/\ (ret'.op = "open" /\ db' # "live") => ret'.err
     /\ db = "failed" => ret'.op = "open"]_vars

\* C18: Defrag on a store without persister returns an error and leaves the
\* index as it was.
C18_DefragMemory ==
  [][(ret'.op = "defrag" /\ dpc = "idle" /\ aof = "nil") =>
       (ret'.err /\ db' = db /\ keys' = keys)]_vars

\* C19: once the file of a file-backed store is closed, Set returns an
\* error, appends nothing to the file and adds no record to the index, and
\* Defrag returns an error and leaves the files as they are.
C19_UseAfterClose ==
  [][/\ (ret'.op = "set" /\ aof = "closed") =>
          (ret'.err /\ file' = file /\ keys' = keys)
     /\ (ret'.op = "defrag" /\ dpc = "idle" /\ aof = "closed") =>
          (ret'.err /\ dpc' = "idle" /\ file' = file /\ bak' = bak)]_vars

\* C19 witness: a Set with valid arguments has failed in Write on the
\* closed file of a store that had appended an entry.
C19_Witness ==
  /\ ret.op = "set" /\ ret.err /\ ret.wrote = "err"
  /\ aof = "closed" /\ faults = 0 /\ file.data # <<>>

\* C20: a Close that returns nil leaves the index empty, and the Set that
\* follows it on the same store returns an error and adds no record, with
\* or without a persister.
C20_NotReusable ==
  [][/\ (ret'.op = "close" /\ ~ret'.err) => keys' = EmptyMap
     /\ (ret.op = "close" /\ ~ret.err /\ ret'.op = "set") =>
          (ret'.err /\ keys' = EmptyMap)]_vars

\* C21: every record that a store holds at its Close in a bucket whose name
\* contains an underscore is, after the Open that follows, in the same
\* bucket under the same key with the same value.
C21_UnderscoreBuckets ==
  [][(Reopen /\ OnlySetDel) =>
       \A b \in DOMAIN preClose.keys : \A k \in DOMAIN preClose.keys[b] :
         Contains(b, <<US>>) =>
           /\ ~ret'.err
           /\ b \in DOMAIN keys' /\ k \in DOMAIN keys'[b]
           /\ keys'[b][k] = preClose.keys[b][k]]_vars

\* The same for the place of the record alone: its bucket and its key.
UnderscorePlaceKept ==
  [][(Reopen /\ OnlySetDel) =>
       \A b \in DOMAIN preClose.keys : \A k \in DOMAIN preClose.keys[b] :
         Contains(b, <<US>>) =>
           (~ret'.err /\ b \in DOMAIN keys' /\ k \in DOMAIN keys'[b])]_vars

\* An entry as the protocol has it: "set", a key line and a value line, or
\* "del" and a key line, each line ended by a newline, the key line of the
\* form name_integer.
WellFormedEntry(e) ==
  /\ e # <<>>
  /\ e[Len(e)] = NL
  /\ LET ls == LinesOf(e)
     IN \/ ls[1] = SetWord /\ Len(ls) = 3 /\ KeyLine(ls[2])
        \/ ls[1] = DelWord /\ Len(ls) = 2 /\ KeyLine(ls[2])

\* C22: Write of an entry that is not well formed (first line neither set
\* nor del, a line too many or too few, key line without underscore or
\* without integer suffix) returns an error and leaves the file as it was.
C22_WriteValidates ==
  [][(ret'.op = "write" /\ ~WellFormedEntry(ret'.v)) =>
       (ret'.err /\ file' = file)]_vars

\* C22 witness: Write has rejected a set entry with a line too many, on a
\* file that holds an entry.
C22_Witness ==
  /\ ret.op = "write" /\ ret.err /\ aof = "open" /\ faults = 0
  /\ file.data # <<>>
  /\ ret.v[Len(ret.v)] = NL
  /\ LET ls == LinesOf(ret.v)
     IN Len(ls) = 4 /\ ls[1] = SetWord /\ KeyLine(ls[2])

\* The arrangements of a set of writers in a row.
Orders(S) ==
  {o \in [1..Cardinality(S) -> S] : \A i, j \in DOMAIN o : o[i] = o[j] => i = j}

RECURSIVE EntriesInOrder(_)
EntriesInOrder(o) ==
  IF o = <<>> THEN <<>> ELSE WriterLines(Head(o)) \o EntriesInOrder(Tail(o))

\* C23: with goroutines calling Write on one persister, the file is at
\* every moment the entries of the calls that have written, each whole and
\* next to each other, followed at most by the beginning of the one entry
\* being written; once all have returned, Close and OpenPersister succeed
\* and yield one record for each call.
C23_WritesSerialised ==
  LET through == {p \in Writers : writers[p].pc \in {"written", "done"}}
      midway == {p \in Writers : writers[p].pc = "rest"}
      starts == IF midway = {} THEN {<<>>}
                ELSE UNION {{SubSeq(WriterLines(p), 1, n) :
                                n \in 1..Len(WriterLines(p))} : p \in midway}
  IN /\ Cardinality(midway) <= 1
     /\ \E o \in Orders(through) : \E s \in starts :
          file.data = EntriesInOrder(o) \o s
     /\ (ret.op = "open" /\ through = Writers) =>
          /\ ~ret.err
          /\ DOMAIN keys = {KeyBucket}
          /\ DOMAIN keys[KeyBucket] = Writers
          /\ \A i \in Writers : keys[KeyBucket][i] = WriterValue(i)

\* C23 witness: all calls have returned, the last goroutine wrote first,
\* and the reopened persister holds the records.
C23_Witness ==
  /\ ret.op = "open" /\ aof = "open"
  /\ \A p \in Writers : writers[p].pc = "done"
  /\ SubSeq(file.data, 1, Len(WriterLines(0))) = WriterLines(NumWriters - 1)
  /\ DOMAIN keys = {KeyBucket}

\* C24: GetAllSorted returns one record for each key of the bucket, the
\* records of GetAll, in strictly ascending order of the key, SortField
\* the key and Data its value; for an absent bucket GetAll and GetAllSorted
\* return an error and no data.
C24_SortedRecords ==
  /\ ret.op = "getall" =>
       IF ret.b \in DOMAIN keys
       THEN ~ret.err /\ ret.v = keys[ret.b]
       ELSE ret.err /\ ret.v = <<>>
  /\ ret.op = "getallsorted" =>
       IF ret.b \in DOMAIN keys
       THEN /\ ~ret.err
            /\ Len(ret.v) = Cardinality(DOMAIN keys[ret.b])
            /\ {ret.v[i].SortField : i \in 1..Len(ret.v)} = DOMAIN keys[ret.b]
            /\ \A i \in 1..Len(ret.v) :
                 ret.v[i].Data = keys[ret.b][ret.v[i].SortField]
            /\ \A i, j \in 1..Len(ret.v) :
                 i < j => ret.v[i].SortField < ret.v[j].SortField
       ELSE ret.err /\ ret.v = <<>>

\* C24 witness: GetAllSorted has returned three records of a bucket whose
\* largest key was stored first.
C24_Witness ==
  /\ ret.op = "getallsorted" /\ ~ret.err /\ Len(ret.v) = 3
  /\ HasPrefix(file.data,
               formatCommand(SetWord, ret.b, MaxInt, QueryValue(MaxInt)))

\* The largest element of a set of integers that is not empty.
Largest(S) == CHOOSE x \in S : \A y \in S : x >= y

\* C25: GetNewIndex returns 1 for an absent bucket and otherwise the
\* largest key of the bucket plus one; the key it returns is not in the
\* bucket and is one that Set accepts.
C25_NewIndex ==
  ret.op = "getnewindex" =>
    IF ret.b \in DOMAIN keys
    THEN /\ ret.k = Largest(DOMAIN keys[ret.b]) + 1
         /\ ret.k \notin DOMAIN keys[ret.b]
         /\ validateSetInput(ret.b, ret.k)
    ELSE ret.k = 1

\* The same for a bucket that holds a key of 0 or more and whose largest
\* key is not the largest int.
NewIndexInRange ==
  (/\ ret.op = "getnewindex"
   /\ ret.b \in DOMAIN keys
   /\ Largest(DOMAIN keys[ret.b]) \in 0..(MaxInt - 1)) =>
    /\ ret.k = Largest(DOMAIN keys[ret.b]) + 1
    /\ ret.k \notin DOMAIN keys[ret.b]
    /\ validateSetInput(ret.b, ret.k)
\* C27: after Open with its replay, Set and Del, no bucket of the index is
\* empty, and the bucket count that Info reports is the number of buckets
\* that hold a record.
C27_NoEmptyBucket ==
  /\ \A b \in DOMAIN keys : DOMAIN keys[b] # {}
  /\ ret.op = "info" =>
       ret.v = InfoText(Cardinality(UNION {{<<b, k>> : k \in DOMAIN keys[b]} :
                                             b \in DOMAIN keys}),
                        Cardinality({b \in DOMAIN keys : keys[b] # <<>>}))

\* C27 witness: Info is called after Del has removed the last record of a
\* bucket while another bucket holds a record.
C27_Witness ==
  /\ ret.op = "info"
  /\ keys # EmptyMap
  /\ \E s \in QueryDels :
       /\ s[1] \notin DOMAIN keys
       /\ LET e == formatCommand(DelWord, s[1], s[2], <<>>)
          IN Len(file.data) > Len(e)
             /\ SubSeq(file.data, Len(file.data) - Len(e) + 1,
                       Len(file.data)) = e
  /\ appended > 0

\* The entries of a log of whole entries: the instruction, the key line and,
\* for set, the value line.
RECURSIVE LogEntries(_)
LogEntries(ls) ==
  IF Len(ls) < 2 THEN <<>>
  ELSE IF ls[1] = SetWord /\ Len(ls) >= 3
  THEN <<[op |-> SetWord, key |-> ls[2], value |-> ls[3]]>>
         \o LogEntries(SubSeq(ls, 4, Len(ls)))
  ELSE <<[op |-> ls[1], key |-> ls[2], value |-> <<>>]>>
         \o LogEntries(SubSeq(ls, 3, Len(ls)))

\* The value that a value line of the log stands for.
Decoded(line) == ReplaceAll(line, <<BS, "n">>, <<NL>>)

\* C26: after Open the index holds a record exactly where the last entry
\* of the log on that bucket and key is a set, with the value of that
\* entry; a del on a key or bucket that is absent changes nothing, and a
\* bucket whose last record a del removed is absent.
C26_ReplayFold ==
  (ret.op = "open" /\ db # "none") =>
    LET es == LogEntries(LinesOf(file.data))
        on(s) == {i \in 1..Len(es) : es[i].key = SlotLine(s)}
        last(s) == CHOOSE i \in on(s) : \A j \in on(s) : j <= i
        live == {s \in ReplaySlots : on(s) # {} /\ es[last(s)].op = SetWord}
    IN /\ ~ret.err
       /\ DOMAIN keys = {s[1] : s \in live}
       /\ \A b \in DOMAIN keys : DOMAIN keys[b] = {s[2] : s \in {x \in live : x[1] = b}}
       /\ \A s \in live : keys[s[1]][s[2]] = Decoded(es[last(s)].value)

\* C26 witness: the log sets a key, deletes it and sets it again with
\* another value.
C26_Witness ==
  /\ ret.op = "open" /\ db = "live"
  /\ LET es == LogEntries(LinesOf(file.data))
     IN /\ Len(es) = 3
        /\ es[1].op = SetWord /\ es[2].op = DelWord /\ es[3].op = SetWord
        /\ es[1].key = es[2].key /\ es[2].key = es[3].key
        /\ es[1].value # es[3].value

\* C28: a log that holds only entries that Write has accepted is opened by
\* OpenPersister without an error.
C28_WriteReplayAgree == [][ret'.op = "open" => ~ret'.err]_vars

\* C29: when Set or Del on a file-backed store returns an error, the log
\* is as it was before the call.
C29_FailedMutationNoEntry ==
  [][(ret'.op \in {"set", "del"} /\ ret'.err /\ aof # "nil") =>
       file' = file]_vars

\* C30: when Defrag has returned nil the persister is open on the log that
\* was written anew; the next Set or Del appends its entry to that log and
\* changes the index; Close and Open after a Defrag yield the index the
\* store held before the Close.
C30_UsableAfterDefrag ==
  /\ [](DefragSucceeded => (aof = "open" /\ file.exists))
  /\ [][(DefragSucceeded /\ ret'.op = "set" /\ ~ret'.err) =>
          /\ file'.data =
               file.data \o formatCommand(SetWord, ret'.b, ret'.k, ret'.v)
          /\ Found(keys', ret'.b, ret'.k)
          /\ keys'[ret'.b][ret'.k] = ret'.v]_vars
  /\ [][(DefragSucceeded /\ ret'.op = "del" /\ ret'.found) =>
          /\ file'.data =
               file.data \o formatCommand(DelWord, ret'.b, ret'.k, <<>>)
          /\ ~Found(keys', ret'.b, ret'.k)]_vars
  /\ [][(Reopen /\ defragged /\ faults = 0) => (~ret'.err /\ keys' = preClose.keys)]_vars

\* The index before the Close holds no value with a backslash or a newline,
\* and the log holds no del entry on a bucket named set.
PlainRecords ==
  /\ \A b \in DOMAIN preClose.keys : \A k \in DOMAIN preClose.keys[b] :
       /\ ~Contains(preClose.keys[b][k], <<BS>>)
       /\ ~Contains(preClose.keys[b][k], <<NL>>)
  /\ ~Contains(file.data, DelWord \o <<NL>> \o SetWord)

\* Close and Open after a Defrag yield the index the store held before the
\* Close when the records are plain.
ReopenAfterDefragPlain ==
  [][(Reopen /\ defragged /\ faults = 0 /\ PlainRecords) =>
       (~ret'.err /\ keys' = preClose.keys)]_vars

\* C31: every bucket name of the index is a string that is not empty and
\* every key is 0 or more, also when the index comes from the replay of a
\* log that Open accepts.
C31_IndexDomain ==
  \A b \in DOMAIN keys : b # <<>> /\ \A k \in DOMAIN keys[b] : k >= 0

\* C32: the result of GetAllSorted is the content of the bucket in one of
\* the states that the index went through during the call, and so is the
\* key that GetNewIndex returns the successor of the largest key of one of
\* these states (1 when the bucket is absent).
C32_AtomicSnapshot ==
  \A p \in Callers :
    LET l == procs[p]
    IN /\ (l.prog = "sorted" /\ l.pc = "done" /\ db = "live") =>
            \E s \in l.hist :
              IF s.present
              THEN /\ ~l.err
                   /\ Len(l.out) = Cardinality(DOMAIN s.m)
                   /\ \A c \in 1..Len(l.out) :
                        /\ l.out[c].SortField \in DOMAIN s.m
                        /\ l.out[c].Data = s.m[l.out[c].SortField]
                   /\ \A c, d \in 1..Len(l.out) :
                        c < d => l.out[c].SortField < l.out[d].SortField
              ELSE Len(l.out) = 0
       /\ (l.prog = "newindex" /\ l.pc = "newindex_set") =>
            \E s \in l.hist :
              IF s.present
              THEN \E big \in DOMAIN s.m :
                     /\ \A k \in DOMAIN s.m : k <= big
                     /\ l.k = big + 1
              ELSE l.k = 1

\* C33: every step in which Info reads the index is made with the shared
\* lock held by the caller, and with no writer in its critical section.
C33_InfoUnderLock ==
  [][\A p \in Callers :
       (procs[p].prog = "info" /\ procs'[p].pc # procs[p].pc) =>
         (p \in mu.r /\ mu.w = {})]_vars

\* The step in which caller p, in Close, replaces the index by an empty one.
Clears(p) ==
  /\ procs[p].prog = "close"
  /\ procs[p].pc # "done"
  /\ procs'[p].pc = "done"
  /\ ~procs'[p].err

\* C34: Close holds the exclusive lock in the step that clears the index,
\* on a store without persister as on one with a file, so that no other
\* caller holds the lock, shared or exclusive, in that step.
C34_CloseUnderLock ==
  [][\A p \in Callers :
       Clears(p) => (mu.w = {p} /\ mu.r = {})]_vars

\* C34 for the store with a file alone.
CloseUnderLockFile ==
  [][\A p \in Callers :
       (Clears(p) /\ aof # "nil") => (mu.w = {p} /\ mu.r = {})]_vars

\* Both callers have asked for a new key, have been given the same one, and
\* have stored their record under it.
BothSetSameKey ==
  /\ \A p \in Callers : procs[p].prog = "newindex" /\ procs[p].pc = "done"
  /\ \A p, q \in Callers : procs[p].k = procs[q].k

\* The records of the bucket that the callers have stored.
CallerRecords ==
  IF RaceBucket \in DOMAIN keys
  THEN {k \in DOMAIN keys[RaceBucket] :
          \E p \in Callers : keys[RaceBucket][k] = RaceValue(p)}
  ELSE {}

\* C38: GetNewIndex followed by Set is not atomic: two callers can be given
\* the same key, and when both have stored their record under it, one
\* record of the two remains, under that key.
C38_SameKeyOneRecord ==
  BothSetSameKey => CallerRecords = {procs[0].k}

C38_Witness ==
  /\ BothSetSameKey
  /\ db = "live"
  /\ CallerRecords = {procs[0].k}
  /\ \E p \in Callers : keys[RaceBucket][procs[0].k] # RaceValue(p)

\* Caller p holds the mapping that GetAll has returned.
Holds(p) ==
  /\ procs[p].prog = "getall"
  /\ procs[p].pc \in {"getall_held", "done"}
  /\ procs[p].obj # 0

\* C40: the mapping that GetAll has returned is the caller's own: a step of
\* another caller leaves the mapping as it is, and the write of the caller
\* to the mapping leaves the index as it is.
C40_OwnSnapshot ==
  [][\A p \in Callers :
       Holds(p) =>
         /\ procs'[p].pc = procs[p].pc =>
              objs'[procs[p].obj] = objs[procs[p].obj]
         /\ procs'[p].pc # procs[p].pc => keys' = keys]_vars

\* The flushers that are in their loop, with a ticker that runs.
Live == {i \in DOMAIN flushers : flushers[i].st \in {"waiting", "ticked"}}

\* C35: at any moment at most one flush task of the persister is live,
\* also across Defrag.
C35_OneFlusher == Cardinality(Live) <= 1

\* C36: when Close has returned nil, the flush task that was started for
\* the file it has closed is not in its loop any more.
C36_CloseStopsFlusher ==
  \A i \in DOMAIN flushers :
    flushers[i].gen \in call.done => i \notin Live

\* C37: when the file is closed and is not opened again, every flush task
\* of the persister has stopped in the end and stays so.
C37_FlushersTerminate ==
  (<>[](~fd.open)) =>
    <>[](\A i \in DOMAIN flushers : flushers[i].st = "stopped")

C37_Witness ==
  /\ ~fd.open
  /\ syncTime # 0
  /\ Len(flushers) > 1
  /\ \A i \in DOMAIN flushers : flushers[i].st = "stopped"

\* C39: AOF.mu is taken by a caller that holds DB.mu only, no caller waits
\* for a lock that it holds, and every call of Set, Del, Get, GetAll,
\* Defrag and Close returns in the end.
C39_DeadlockFree ==
  /\ [](\A p \in amu : p \in mu.w)
  /\ [](\A p \in Lockers :
          /\ (procs[p].pc = "start") => (p \notin mu.w /\ p \notin mu.r)
          /\ (procs[p].pc \in {"db", "reopen", "emit"}) => p \notin amu)
  /\ \A p \in Lockers : <>(procs[p].pc = "done")

C39_Witness ==
  /\ \A p \in Lockers : procs[p].pc = "done"
  /\ \E p, q, r \in Lockers :
       /\ procs[p].prog = "defrag" /\ ~procs[p].err
       /\ procs[q].prog = "set" /\ ~procs[q].err
       /\ procs[r].prog = "getall"
  /\ bak # NoFile
  /\ file.data # <<>>
  /\ mu = [w |-> {}, r |-> {}]
  /\ amu = {}

====
